---------------------------- MODULE Spec2Model ----------------------------
(***************************************************************************)
(* Model of the Grantee-app core: the signal extraction / scoring / risk   *)
(* / next-action / opportunity-card pipeline (src/lib/signals/scoring.ts), *)
(* and the niche grant matcher (src/lib/matching.ts).                      *)
(*                                                                         *)
(* JavaScript numbers are modelled as exact rationals [n, d] (d > 0, in    *)
(* lowest terms); Math.round, Math.floor, Math.min and Math.max are        *)
(* computed on them.  Time is counted in hours (a day is HoursPerDay       *)
(* hours), so that Math.floor((Date.now() - t) / day) is a real floor.     *)
(* Strings that the code inspects (tags, categories, quality notes) are    *)
(* sequences of one-character strings; other strings are atomic.           *)
(* A JavaScript object is a record whose DOMAIN holds the fields that are  *)
(* present; a property read yields <<v>> or <<>> (undefined).              *)
(***************************************************************************)
EXTENDS Integers, Sequences, FiniteSets, TLC

VARIABLES
    result,        \* the RepoAnalysisResult handed to the pipeline
    now,           \* Date.now(), in hours
    pc,            \* position of the caller (the OpportunityCard component)
    signals,       \* extractSignals' return value
    scores,        \* calculateScores' return value
    card,          \* generateOpportunityCard's return value
    riskFlags,     \* a direct detectRiskFlags call's return value
    nextActions,   \* a direct generateNextActions call's return value
    threw,         \* TRUE once a call has raised a TypeError
    nv,            \* normalizeValue harness: [value, thresholds, out] records
    nicheId,       \* matchGrantsForNiche's niche id
    catalog,       \* matchGrantsForNiche's grants argument
    matched,       \* matchGrantsForNiche's return value
    strippedRun,   \* the match re-run on the catalog with overlapping tags removed
    fx,            \* one fetchWith402 call: position, requests issued, statuses reported
    page,          \* AnalyzePage: status, paywall modal, payment promise, wallet
    storage,       \* localStorage: the unlock flag, the payer, the analysis history
    legacy         \* the AnalyzePage that issues its requests itself (handleContinue)

vars == <<result, now, pc, signals, scores, card, riskFlags, nextActions,
          threw, nv, nicheId, catalog, matched, strippedRun, fx, page, storage, legacy>>

scoringVars == <<result, now, pc, signals, scores, card, riskFlags, nextActions, threw>>
normVars == <<nv>>
matchVars == <<nicheId, catalog, matched, strippedRun>>
appVars == <<fx, page, storage, legacy>>

(***************************************************************************)
(* Rational arithmetic                                                     *)
(***************************************************************************)
RECURSIVE Gcd(_, _)
Gcd(a, b) == IF b = 0 THEN a ELSE Gcd(b, a % b)

Abs(x) == IF x < 0 THEN -x ELSE x

Rat(n, d) ==
    LET s == IF d < 0 THEN -1 ELSE 1
        g == Gcd(Abs(n), Abs(d))
    IN  [n |-> (s * n) \div g, d |-> (s * d) \div g]

Int2R(i) == [n |-> i, d |-> 1]
R0 == Int2R(0)
R1 == Int2R(1)

RAdd(a, b) ==
    LET l == (a.d \div Gcd(a.d, b.d)) * b.d
    IN  Rat(a.n * (l \div a.d) + b.n * (l \div b.d), l)
RSub(a, b) == RAdd(a, [n |-> -b.n, d |-> b.d])
RMul(a, b) ==
    LET g1 == Gcd(Abs(a.n), b.d)
        g2 == Gcd(Abs(b.n), a.d)
    IN  Rat((a.n \div g1) * (b.n \div g2), (a.d \div g2) * (b.d \div g1))
RDiv(a, b) == RMul(a, Rat(b.d, b.n))
RLeq(a, b) == RSub(a, b).n <= 0
RLt(a, b) == RSub(a, b).n < 0
RMin(a, b) == IF RLeq(a, b) THEN a ELSE b
RMax(a, b) == IF RLeq(a, b) THEN b ELSE a
\* Math.floor and Math.round (round half up: floor(x + 1/2))
RFloor(a) == a.n \div a.d
RRound(a) == (2 * a.n + a.d) \div (2 * a.d)

(***************************************************************************)
(* JavaScript values                                                       *)
(***************************************************************************)
Undefined == [jsType |-> "undefined"]
Null == [jsType |-> "null"]

IsNullish(o) == o = Undefined \/ o = Null

\* tests `=== undefined` only, so null passes the guard
Falsy_UndefinedOnly(o) == o = Undefined

\* !result for an object-or-nullish value
Falsy(o) == IsNullish(o)

\* o.f : <<v>> when the field is present, <<>> (undefined) otherwise
Prop(o, f) ==
    IF IsNullish(o) THEN <<>>
    ELSE IF f \in DOMAIN o THEN <<o[f]>> ELSE <<>>

\* a property read of undefined or null raises a TypeError
Raises(objs) == \E i \in 1..Len(objs) : IsNullish(objs[i])

Ok(v) == [threw |-> FALSE, value |-> v]
Thrown == [threw |-> TRUE]

\* drops the typeof check: `return value as T`
safeObject_Unchecked(value, fallback) ==
    IF Len(value) = 1 THEN value[1] ELSE Undefined

safeNumber(value, fallback) == IF Len(value) = 1 THEN value[1] ELSE fallback
safeString(value, fallback) == IF Len(value) = 1 THEN value[1] ELSE fallback
safeArray(value, fallback) == IF Len(value) = 1 THEN value[1] ELSE fallback
safeObject(value, fallback) == IF Len(value) = 1 THEN value[1] ELSE fallback

DefaultActivity == [lastCommit |-> <<>>, commits30d |-> 0]
DefaultIssues == [open |-> 0, closed |-> 0]
DefaultCodeQuality == [score |-> 0, notes |-> <<>>]
DefaultLanguages == [entries |-> <<>>]
DefaultGrantFit == [signals |-> <<>>, recommendations |-> <<>>, matches |-> <<>>]

(***************************************************************************)
(* Strings the code inspects: sequences of one-character strings           *)
(***************************************************************************)
LowerTable ==
    ("A" :> "a") @@ ("B" :> "b") @@ ("C" :> "c") @@ ("D" :> "d") @@ ("E" :> "e") @@ ("F" :> "f")
    @@ ("G" :> "g") @@ ("H" :> "h") @@ ("I" :> "i") @@ ("J" :> "j") @@ ("K" :> "k") @@ ("L" :> "l")
    @@ ("M" :> "m") @@ ("N" :> "n") @@ ("O" :> "o") @@ ("P" :> "p") @@ ("Q" :> "q") @@ ("R" :> "r")
    @@ ("S" :> "s") @@ ("T" :> "t") @@ ("U" :> "u") @@ ("V" :> "v") @@ ("W" :> "w") @@ ("X" :> "x")
    @@ ("Y" :> "y") @@ ("Z" :> "z")

toLowerCaseCh(c) == IF c \in DOMAIN LowerTable THEN LowerTable[c] ELSE c

RECURSIVE toLowerCase(_)
toLowerCase(s) ==
    IF s = <<>> THEN <<>> ELSE <<toLowerCaseCh(Head(s))>> \o toLowerCase(Tail(s))

\* s.includes(sub)
includes(s, sub) ==
    \E i \in 0..(Len(s) - Len(sub)) : SubSeq(s, i + 1, i + Len(sub)) = sub

\* array.slice(0, n)
Slice(seq, n) == SubSeq(seq, 1, IF Len(seq) < n THEN Len(seq) ELSE n)

(***************************************************************************)
(* config.ts                                                               *)
(***************************************************************************)
SIGNAL_WEIGHTS ==
    [commits30d |-> Rat(15, 100), lastCommitRecency |-> Rat(12, 100),
     stars |-> Rat(10, 100), forks |-> Rat(8, 100), issueActivity |-> Rat(5, 100),
     hasTests |-> Rat(8, 100), codeStructure |-> Rat(6, 100),
     hasContracts |-> Rat(10, 100)]

\* four equal weights
SCORE_TYPE_WEIGHTS_Equal ==
    [grantFit |-> Rat(25, 100), capitalReadiness |-> Rat(25, 100),
     ecosystemAlignment |-> Rat(25, 100), engagementEase |-> Rat(25, 100)]

SCORE_TYPE_WEIGHTS ==
    [grantFit |-> Rat(35, 100), capitalReadiness |-> Rat(25, 100),
     ecosystemAlignment |-> Rat(25, 100), engagementEase |-> Rat(15, 100)]

\* exceptional = <<>> where the tier is not configured
SIGNAL_THRESHOLDS ==
    [stars        |-> [low |-> 10, medium |-> 100, high |-> 1000, exceptional |-> <<10000>>],
     forks        |-> [low |-> 5,  medium |-> 25,  high |-> 100,  exceptional |-> <<500>>],
     commits30d   |-> [low |-> 5,  medium |-> 20,  high |-> 50,   exceptional |-> <<100>>],
     contributors |-> [low |-> 2,  medium |-> 5,   high |-> 15,   exceptional |-> <<50>>],
     openIssues   |-> [low |-> 5,  medium |-> 20,  high |-> 50,   exceptional |-> <<>>],
     closedIssues |-> [low |-> 10, medium |-> 50,  high |-> 200,  exceptional |-> <<>>]]

\* every threshold one lower, as if > were >=
RISK_THRESHOLDS_OffByOne ==
    [inactivityDays |-> 59, criticalInactivityDays |-> 179, lowStars |-> 4,
     highOpenIssueRatio |-> Rat(8, 10)]

RISK_THRESHOLDS ==
    [inactivityDays |-> 60, criticalInactivityDays |-> 180, lowStars |-> 5,
     highOpenIssueRatio |-> Rat(8, 10)]

HoursPerDay == 24

(***************************************************************************)
(* scoring.ts: normalization helper                                        *)
(***************************************************************************)
Quarter == Rat(1, 4)

normalizeValue(value, thresholds) ==
    IF value <= thresholds.low
    THEN RMul(Rat(value, thresholds.low), Quarter)
    ELSE IF value <= thresholds.medium
    THEN RAdd(Rat(1, 4),
              RMul(Rat(value - thresholds.low, thresholds.medium - thresholds.low), Quarter))
    ELSE IF value <= thresholds.high
    THEN RAdd(Rat(1, 2),
              RMul(Rat(value - thresholds.medium, thresholds.high - thresholds.medium), Quarter))
    ELSE IF /\ thresholds.exceptional # <<>>
            /\ thresholds.exceptional[1] # 0
            /\ value <= thresholds.exceptional[1]
    THEN RAdd(Rat(3, 4),
              RMul(Rat(value - thresholds.high, thresholds.exceptional[1] - thresholds.high),
                   Quarter))
    ELSE R1

(***************************************************************************)
(* scoring.ts: signal extraction                                           *)
(***************************************************************************)
NumV(r) == [num |-> r]
BoolV(b) == [bool |-> b]

\* Math.floor((Date.now() - new Date(str).getTime()) / (1000*60*60*24))
DaysSince(t, lastCommitStr) == (t - lastCommitStr[1]) \div HoursPerDay

TestWord == <<"t", "e", "s", "t">>
SpecWord == <<"s", "p", "e", "c">>
NoteMentionsTests(note) ==
    includes(toLowerCase(note), TestWord) \/ includes(toLowerCase(note), SpecWord)

\* Object.keys(languages): languages.entries is the insertion-ordered list of
\* [name, share] properties
RECURSIVE Names(_)
Names(entries) ==
    IF entries = <<>> THEN <<>> ELSE <<Head(entries).name>> \o Names(Tail(entries))
ObjectKeys(languages) == Names(languages.entries)
KeysInclude(keys, k) == \E i \in 1..Len(keys) : keys[i] = k

\* passes key and category in the wrong order
Signal_SwappedKey(key, category, rawValue, normalizedValue, label, description, weight) ==
    [key |-> category, category |-> key, rawValue |-> rawValue,
     normalizedValue |-> normalizedValue, label |-> label,
     description |-> description, weight |-> weight]

Signal(key, category, rawValue, normalizedValue, label, description, weight) ==
    [key |-> key, category |-> category, rawValue |-> rawValue,
     normalizedValue |-> normalizedValue, label |-> label,
     description |-> description, weight |-> weight]

extractSignals(res, t) ==
    IF Falsy(res) THEN Ok(<<>>)
    ELSE
    LET activity == safeObject(Prop(res, "activity"), DefaultActivity)
        issues == safeObject(Prop(res, "issues"), DefaultIssues)
        codeQuality == safeObject(Prop(res, "codeQuality"), DefaultCodeQuality)
        languages == safeObject(Prop(res, "languages"), DefaultLanguages)
        grantFit == safeObject(Prop(res, "grantFit"), DefaultGrantFit)
        commits30d == safeNumber(Prop(activity, "commits30d"), 0)
        stars == safeNumber(Prop(res, "stars"), 0)
        forks == safeNumber(Prop(res, "forks"), 0)
        lastCommitStr == safeString(Prop(activity, "lastCommit"), <<>>)
        daysSinceCommit == IF lastCommitStr # <<>> THEN DaysSince(t, lastCommitStr) ELSE 999
        openIssues == safeNumber(Prop(issues, "open"), 0)
        closedIssues == safeNumber(Prop(issues, "closed"), 0)
        totalIssues == openIssues + closedIssues
        issueResolutionRate ==
            IF totalIssues > 0 THEN Rat(closedIssues, totalIssues) ELSE R0
        qualityScore == safeNumber(Prop(codeQuality, "score"), 0)
        qualityNotes == safeArray(Prop(codeQuality, "notes"), <<>>)
        hasTests == \E i \in 1..Len(qualityNotes) : NoteMentionsTests(qualityNotes[i])
        languageKeys == ObjectKeys(languages)
        hasSolidity == KeysInclude(languageKeys, "Solidity")
    IN  IF Raises(<<res, activity, issues, codeQuality, languages>>)
        THEN Thrown
        ELSE Ok(<<
          Signal("commits30d", "activity", NumV(Int2R(commits30d)),
                 normalizeValue(commits30d, SIGNAL_THRESHOLDS.commits30d),
                 "Recent Commits (30d)", <<"commits in the last 30 days", commits30d>>,
                 SIGNAL_WEIGHTS.commits30d),
          Signal("lastCommitRecency", "activity", NumV(Int2R(daysSinceCommit)),
                 RMax(R0, RSub(R1, Rat(daysSinceCommit, 90))),
                 "Last Commit Recency",
                 IF lastCommitStr # <<>> THEN <<"Last commit days ago", daysSinceCommit>>
                                         ELSE <<"No commit data", 0>>,
                 SIGNAL_WEIGHTS.lastCommitRecency),
          Signal("stars", "community", NumV(Int2R(stars)),
                 normalizeValue(stars, SIGNAL_THRESHOLDS.stars),
                 "GitHub Stars", <<"stars", stars>>, SIGNAL_WEIGHTS.stars),
          Signal("forks", "community", NumV(Int2R(forks)),
                 normalizeValue(forks, SIGNAL_THRESHOLDS.forks),
                 "Forks", <<"forks", forks>>, SIGNAL_WEIGHTS.forks),
          Signal("issueActivity", "community", NumV(issueResolutionRate),
                 issueResolutionRate,
                 "Issue Resolution Rate",
                 <<"% of issues resolved", RRound(RMul(issueResolutionRate, Int2R(100)))>>,
                 SIGNAL_WEIGHTS.issueActivity),
          Signal("codeQuality", "code_quality", NumV(Int2R(qualityScore)),
                 Rat(qualityScore, 100),
                 "Code Quality Score", <<"Quality score /100", qualityScore>>,
                 SIGNAL_WEIGHTS.codeStructure),
          Signal("hasTests", "code_quality", BoolV(hasTests),
                 IF hasTests THEN R1 ELSE R0,
                 "Test Coverage",
                 IF hasTests THEN <<"Has test files", 0>> ELSE <<"No tests detected", 0>>,
                 SIGNAL_WEIGHTS.hasTests),
          Signal("hasContracts", "deployment", BoolV(hasSolidity),
                 IF hasSolidity THEN R1 ELSE R0,
                 "Smart Contracts",
                 IF hasSolidity THEN <<"Contains Solidity contracts", 0>>
                                ELSE <<"No smart contracts detected", 0>>,
                 SIGNAL_WEIGHTS.hasContracts)
        >>)

(***************************************************************************)
(* scoring.ts: score calculation                                           *)
(***************************************************************************)
Factor(name, contribution, explanation) ==
    [name |-> name, contribution |-> contribution, explanation |-> explanation]

Breakdown(type, score, label, description, factors) ==
    [type |-> type, score |-> score, label |-> label,
     description |-> description, factors |-> factors]

defaultBreakdown(type, label, description) ==
    Breakdown(type, 0, label, description, <<>>)

RECURSIVE SumNormalized(_)
SumNormalized(sigs) ==
    IF sigs = <<>> THEN R0
    ELSE RAdd(Head(sigs).normalizedValue, SumNormalized(Tail(sigs)))

KeyIs(s, k) == s.key = k
CategoryIs(s, c) == s.category = c

SignalsByKey(sigs, k) == SelectSeq(sigs, LAMBDA s : KeyIs(s, k))
SignalsByCategory(sigs, c) == SelectSeq(sigs, LAMBDA s : CategoryIs(s, c))

\* reduce(sum) / length, 0 for an empty list
CategoryAverage(sigs, c) ==
    LET sel == SignalsByCategory(sigs, c)
    IN  IF Len(sel) > 0 THEN RDiv(SumNormalized(sel), Int2R(Len(sel))) ELSE R0

\* forgets `totalScore += communityScore`
GrantFitTotal_DropsCommunity(codeScore, activityScore, communityScore) ==
    RAdd(codeScore, activityScore)

GrantFitTotal(codeScore, activityScore, communityScore) ==
    RAdd(RAdd(codeScore, activityScore), communityScore)

calculateGrantFitScore(sigs, res) ==
    LET codeQuality == safeObject(Prop(res, "codeQuality"), DefaultCodeQuality)
        activity == safeObject(Prop(res, "activity"), DefaultActivity)
        stars == safeNumber(Prop(res, "stars"), 0)
        forks == safeNumber(Prop(res, "forks"), 0)
        codeQualitySignal == SignalsByKey(sigs, "codeQuality")
        codeScore ==
            RMul(IF Len(codeQualitySignal) > 0
                 THEN codeQualitySignal[1].normalizedValue ELSE R0, Int2R(40))
        activityScore == RMul(CategoryAverage(sigs, "activity"), Int2R(30))
        communityScore == RMul(CategoryAverage(sigs, "community"), Int2R(30))
        totalScore == GrantFitTotal(codeScore, activityScore, communityScore)
    IN  IF Raises(<<res, codeQuality, activity>>) THEN Thrown
        ELSE Ok(Breakdown("grantFit", RRound(totalScore), "Grant Fit Score",
                  "How well the project matches available grant programs",
                  << Factor("Technical Maturity", RRound(codeScore),
                            <<"Code quality score of /100",
                              safeNumber(Prop(codeQuality, "score"), 0)>>),
                     Factor("Project Activity", RRound(activityScore),
                            <<"commits in 30 days",
                              safeNumber(Prop(activity, "commits30d"), 0)>>),
                     Factor("Community Traction", RRound(communityScore),
                            <<"stars, forks", stars, forks>>) >>))

IntMin(a, b) == IF a < b THEN a ELSE b

\* the engagement formula's 6 points per note, capped at 30
docScoreOf_SixPoints(qualityNotes) == IntMin(Len(qualityNotes) * 6, 30)

\* Math.min(qualityNotes.length * 7, 35)
docScoreOf(qualityNotes) == IntMin(Len(qualityNotes) * 7, 35)

\* forgets the 20-point cap: commits * 0.5
velocityScoreOf_Uncapped(commits) == Rat(commits, 2)

\* Math.min(commits * 0.5, 20)
velocityScoreOf(commits) == RMin(Rat(commits, 2), Int2R(20))

\* the share of open issues instead of closed ones
issueRatioOf_OpenShare(openIssues, closedIssues) ==
    Rat(openIssues,
        IF openIssues + closedIssues > 1 THEN openIssues + closedIssues ELSE 1)

\* closedIssues / Math.max(1, openIssues + closedIssues)
issueRatioOf(openIssues, closedIssues) ==
    Rat(closedIssues,
        IF openIssues + closedIssues > 1 THEN openIssues + closedIssues ELSE 1)

calculateCapitalReadinessScore(sigs, res) ==
    LET codeQuality == safeObject(Prop(res, "codeQuality"), DefaultCodeQuality)
        activity == safeObject(Prop(res, "activity"), DefaultActivity)
        issues == safeObject(Prop(res, "issues"), DefaultIssues)
        qualityNotes == safeArray(Prop(codeQuality, "notes"), <<>>)
        docScore == docScoreOf(qualityNotes)
        qualityScore == safeNumber(Prop(codeQuality, "score"), 0)
        codeScore == RMul(Rat(qualityScore, 100), Int2R(30))
        commits == safeNumber(Prop(activity, "commits30d"), 0)
        velocityScore == velocityScoreOf(commits)
        openIssues == safeNumber(Prop(issues, "open"), 0)
        closedIssues == safeNumber(Prop(issues, "closed"), 0)
        issueRatio == issueRatioOf(openIssues, closedIssues)
        issueScore == RMul(issueRatio, Int2R(15))
        totalScore ==
            RAdd(RAdd(RAdd(Int2R(docScore), codeScore), velocityScore), issueScore)
    IN  IF Raises(<<res, codeQuality, activity, issues>>) THEN Thrown
        ELSE Ok(Breakdown("capitalReadiness", RRound(totalScore),
                  "Capital Readiness Score", "How prepared the project is for funding",
                  << Factor("Documentation Quality", docScore,
                            <<"quality indicators found", Len(qualityNotes)>>),
                     Factor("Code Quality", RRound(codeScore),
                            <<"Quality score", qualityScore>>),
                     Factor("Development Velocity", RRound(velocityScore),
                            <<"recent commits", commits>>),
                     Factor("Issue Management", RRound(issueScore),
                            <<"% issues resolved",
                              RRound(RMul(issueRatio, Int2R(100)))>>) >>))

calculateEcosystemAlignmentScore(sigs, res) ==
    LET languages == safeObject(Prop(res, "languages"), DefaultLanguages)
        grantFit == safeObject(Prop(res, "grantFit"), DefaultGrantFit)
        grantSignals == safeArray(Prop(grantFit, "signals"), <<>>)
        languageKeys == ObjectKeys(languages)
        hasSolidity == KeysInclude(languageKeys, "Solidity")
        hasRust == KeysInclude(languageKeys, "Rust")
        hasTS == KeysInclude(languageKeys, "TypeScript")
                    \/ KeysInclude(languageKeys, "JavaScript")
        langScore ==
            IntMin((IF hasSolidity THEN 25 ELSE 0) + (IF hasRust THEN 15 ELSE 0)
                     + (IF hasTS THEN 10 ELSE 0), 50)
        signalCount == Len(grantSignals)
        signalScore == IntMin(signalCount * 10, 50)
        totalScore == langScore + signalScore
    IN  IF Raises(<<res, languages, grantFit>>) THEN Thrown
        ELSE Ok(Breakdown("ecosystemAlignment", RRound(Int2R(totalScore)),
                  "Ecosystem Alignment Score",
                  "Which ecosystems fit best for this project",
                  << Factor("Language Ecosystem Fit", langScore,
                            <<"Primary", Slice(languageKeys, 3)>>),
                     Factor("Grant Signal Alignment", signalScore,
                            <<"grant-relevant signals detected", signalCount>>) >>))

\* forgets the floor at zero: 40 - daysSinceCommit * 0.5
recencyScoreOf_Unfloored(daysSinceCommit) == RSub(Int2R(40), Rat(daysSinceCommit, 2))

\* Math.max(0, 40 - daysSinceCommit * 0.5)
recencyScoreOf(daysSinceCommit) == RMax(R0, RSub(Int2R(40), Rat(daysSinceCommit, 2)))

calculateEngagementEaseScore(sigs, res, t) ==
    LET activity == safeObject(Prop(res, "activity"), DefaultActivity)
        issues == safeObject(Prop(res, "issues"), DefaultIssues)
        codeQuality == safeObject(Prop(res, "codeQuality"), DefaultCodeQuality)
        qualityNotes == safeArray(Prop(codeQuality, "notes"), <<>>)
        lastCommitStr == safeString(Prop(activity, "lastCommit"), <<>>)
        daysSinceCommit == IF lastCommitStr # <<>> THEN DaysSince(t, lastCommitStr) ELSE 999
        recencyScore == recencyScoreOf(daysSinceCommit)
        openIssues == safeNumber(Prop(issues, "open"), 0)
        closedIssues == safeNumber(Prop(issues, "closed"), 0)
        issueRatio == issueRatioOf(openIssues, closedIssues)
        responsivenessScore == RMul(issueRatio, Int2R(30))
        docScore == IntMin(Len(qualityNotes) * 6, 30)
        totalScore == RAdd(RAdd(recencyScore, responsivenessScore), Int2R(docScore))
    IN  IF Raises(<<res, activity, issues, codeQuality>>) THEN Thrown
        ELSE Ok(Breakdown("engagementEase", RRound(totalScore),
                  "Engagement Ease Score",
                  "How easy it is for partners to engage this team",
                  << Factor("Activity Recency", RRound(recencyScore),
                            IF lastCommitStr # <<>>
                            THEN <<"Last commit days ago", daysSinceCommit>>
                            ELSE <<"No commit data", 0>>),
                     Factor("Team Responsiveness", RRound(responsivenessScore),
                            <<"issues closed", closedIssues>>),
                     Factor("Project Clarity", docScore,
                            <<"Based on code quality notes", 0>>) >>))

ProjectScores(grantFit, capitalReadiness, ecosystemAlignment, engagementEase, overall, calculatedAt) ==
    [grantFit |-> grantFit, capitalReadiness |-> capitalReadiness,
     ecosystemAlignment |-> ecosystemAlignment, engagementEase |-> engagementEase,
     overall |-> overall, calculatedAt |-> calculatedAt]

calculateScores(sigs, res, t) ==
    IF Falsy(res)
    THEN Ok(ProjectScores(
           defaultBreakdown("grantFit", "Grant Fit Score", "No data available"),
           defaultBreakdown("capitalReadiness", "Capital Readiness Score",
                            "No data available"),
           defaultBreakdown("ecosystemAlignment", "Ecosystem Alignment Score",
                            "No data available"),
           defaultBreakdown("engagementEase", "Engagement Ease Score",
                            "No data available"),
           0, t))
    ELSE
    LET grantFit == calculateGrantFitScore(sigs, res)
        capitalReadiness == calculateCapitalReadinessScore(sigs, res)
        ecosystemAlignment == calculateEcosystemAlignmentScore(sigs, res)
        engagementEase == calculateEngagementEaseScore(sigs, res, t)
    IN  IF grantFit.threw \/ capitalReadiness.threw
           \/ ecosystemAlignment.threw \/ engagementEase.threw
        THEN Thrown
        ELSE Ok(ProjectScores(grantFit.value, capitalReadiness.value,
                  ecosystemAlignment.value, engagementEase.value,
                  RRound(RAdd(RAdd(RAdd(
                      RMul(Int2R(grantFit.value.score), SCORE_TYPE_WEIGHTS.grantFit),
                      RMul(Int2R(capitalReadiness.value.score),
                           SCORE_TYPE_WEIGHTS.capitalReadiness)),
                      RMul(Int2R(ecosystemAlignment.value.score),
                           SCORE_TYPE_WEIGHTS.ecosystemAlignment)),
                      RMul(Int2R(engagementEase.value.score),
                           SCORE_TYPE_WEIGHTS.engagementEase))),
                  t))

(***************************************************************************)
(* scoring.ts: risk flags                                                  *)
(***************************************************************************)
RiskFlag(type, message, category) ==
    [type |-> type, message |-> message, category |-> category]

SignalIsOne(sigs, k) ==
    LET f == SignalsByKey(sigs, k)
    IN  Len(f) > 0 /\ f[1].normalizedValue = R1

detectRiskFlags(sigs, res, t) ==
    IF Falsy(res) THEN Ok(<<>>)
    ELSE
    LET activity == safeObject(Prop(res, "activity"), DefaultActivity)
        issues == safeObject(Prop(res, "issues"), DefaultIssues)
        stars == safeNumber(Prop(res, "stars"), 0)
        lastCommitStr == safeString(Prop(activity, "lastCommit"), <<>>)
        daysSinceCommit == DaysSince(t, lastCommitStr)
        activityFlags ==
            IF lastCommitStr = <<>> THEN <<>>
            ELSE IF daysSinceCommit > RISK_THRESHOLDS.criticalInactivityDays
            THEN << RiskFlag("critical", <<"No commits in days", daysSinceCommit>>,
                             "activity") >>
            ELSE IF daysSinceCommit > RISK_THRESHOLDS.inactivityDays
            THEN << RiskFlag("warning",
                             <<"Limited recent activity", daysSinceCommit>>,
                             "activity") >>
            ELSE <<>>
        starFlags ==
            IF stars < RISK_THRESHOLDS.lowStars
            THEN << RiskFlag("warning", <<"Low community visibility (few stars)", 0>>,
                             "community") >>
            ELSE <<>>
        hasTests == SignalIsOne(sigs, "hasTests")
        testFlags ==
            IF ~hasTests
            THEN << RiskFlag("warning", <<"No test coverage detected", 0>>,
                             "code_quality") >>
            ELSE <<>>
        openIssues == safeNumber(Prop(issues, "open"), 0)
        closedIssues == safeNumber(Prop(issues, "closed"), 0)
        totalIssues == openIssues + closedIssues
        issueFlags ==
            IF /\ totalIssues > 10
               /\ RLt(RISK_THRESHOLDS.highOpenIssueRatio, Rat(openIssues, totalIssues))
            THEN << RiskFlag("warning", <<"High ratio of unresolved issues", 0>>,
                             "community") >>
            ELSE <<>>
    IN  IF Raises(<<res, activity, issues>>) THEN Thrown
        ELSE Ok(activityFlags \o starFlags \o testFlags \o issueFlags)

(***************************************************************************)
(* scoring.ts: next actions                                                *)
(***************************************************************************)
NextAction(n, action, priority, impact) ==
    [id |-> <<"action-", n>>, action |-> action, priority |-> priority,
     impact |-> impact, completed |-> FALSE]

IsActivityFlag(f) == f.category = "activity"

\* the rules of generateNextActions in order: <<triggered, action, priority, impact>>
ActionRules(sigs, res, flags) ==
    LET codeQuality == safeObject(Prop(res, "codeQuality"), DefaultCodeQuality)
        grantFit == safeObject(Prop(res, "grantFit"), DefaultGrantFit)
        qualityNotes == safeArray(Prop(codeQuality, "notes"), <<>>)
        matches == safeArray(Prop(grantFit, "matches"), <<>>)
        stars == safeNumber(Prop(res, "stars"), 0)
        hasTests == SignalIsOne(sigs, "hasTests")
    IN  << [on |-> \E i \in 1..Len(flags) : IsActivityFlag(flags[i]),
            action |-> <<"Increase commit frequency to show active development">>,
            priority |-> "high",
            impact |-> "Improves Grant Fit and Engagement scores by 15-20 points"],
           [on |-> ~hasTests,
            action |-> <<"Add unit tests and integration tests">>,
            priority |-> "high",
            impact |-> "Improves Capital Readiness score by 10-15 points"],
           [on |-> stars < 50,
            action |-> <<"Promote project to increase GitHub stars">>,
            priority |-> "medium",
            impact |-> "Improves Ecosystem Alignment and visibility"],
           [on |-> Len(qualityNotes) < 3,
            action |-> <<"Improve README with installation, usage examples, and API docs">>,
            priority |-> "high",
            impact |-> "Improves Capital Readiness by 10-20 points"],
           [on |-> Len(matches) > 0,
            action |-> <<"Apply to top matching grant: ",
                         IF Len(matches) > 0 THEN Prop(matches[1], "program") ELSE <<>>>>,
            priority |-> "high",
            impact |-> "Direct funding opportunity"] >>

\* actions.unshift(...) instead of actions.push(...)
RECURSIVE PushTriggered_Unshift(_, _)
PushTriggered_Unshift(rules, actions) ==
    IF rules = <<>> THEN actions
    ELSE PushTriggered_Unshift(Tail(rules),
           IF Head(rules).on
           THEN <<NextAction(Len(actions) + 1, Head(rules).action,
                             Head(rules).priority, Head(rules).impact)>> \o actions
           ELSE actions)

\* actions.push({ id: `action-${actionId++}`, ... }) for each triggered rule
RECURSIVE PushTriggered(_, _)
PushTriggered(rules, actions) ==
    IF rules = <<>> THEN actions
    ELSE PushTriggered(Tail(rules),
           IF Head(rules).on
           THEN Append(actions, NextAction(Len(actions) + 1, Head(rules).action,
                                           Head(rules).priority, Head(rules).impact))
           ELSE actions)

\* one action per activity flag, and no truncation
generateNextActions_Uncapped(sigs, res, flags) ==
    IF Falsy(res) THEN Ok(<<>>)
    ELSE LET perFlag == SelectSeq(flags, IsActivityFlag)
             rules == ActionRules(sigs, res, flags)
         IN  Ok(PushTriggered(
                  [i \in 1..Len(perFlag) |-> rules[1]] \o Tail(rules), <<>>))

generateNextActions(sigs, res, flags) ==
    IF Falsy(res) THEN Ok(<<>>)
    ELSE
    LET codeQuality == safeObject(Prop(res, "codeQuality"), DefaultCodeQuality)
        grantFit == safeObject(Prop(res, "grantFit"), DefaultGrantFit)
    IN  IF Raises(<<res, codeQuality, grantFit>>) THEN Thrown
        ELSE Ok(Slice(PushTriggered(ActionRules(sigs, res, flags), <<>>), 5))

(***************************************************************************)
(* Array.prototype.sort with a comparator b.key - a.key: a stable          *)
(* descending sort (ECMAScript 2019), computed by insertion.               *)
(* SortedIndicesDesc(keys) is the order of the indices of keys.            *)
(***************************************************************************)
\* position at which index i is inserted into the already sorted order
RECURSIVE InsertDesc(_, _, _)
InsertDesc(order, i, keys) ==
    IF order = <<>> THEN <<i>>
    ELSE IF RLt(keys[Head(order)], keys[i])
    THEN <<i>> \o order
    ELSE <<Head(order)>> \o InsertDesc(Tail(order), i, keys)

RECURSIVE SortFrom(_, _, _)
SortFrom(order, i, keys) ==
    IF i > Len(keys) THEN order
    ELSE SortFrom(InsertDesc(order, i, keys), i + 1, keys)

SortedIndicesDesc(keys) == SortFrom(<<>>, 1, keys)

(***************************************************************************)
(* scoring.ts: opportunity card                                            *)
(***************************************************************************)
\* s.replace(/\s+/g, '-')
RECURSIVE ReplaceWhitespace(_)
ReplaceWhitespace(s) ==
    IF s = <<>> THEN <<>>
    ELSE IF Head(s) = " "
    THEN IF Len(s) > 1 /\ s[2] = " "
         THEN ReplaceWhitespace(Tail(s))
         ELSE <<"-">> \o ReplaceWhitespace(Tail(s))
    ELSE <<Head(s)>> \o ReplaceWhitespace(Tail(s))

\* s.split('/').pop()
RECURSIVE LastSegment(_)
LastSegment(s) ==
    IF \E i \in 1..Len(s) : s[i] = "/"
    THEN LastSegment(Tail(s))
    ELSE s

UnknownLower == <<"u","n","k","n","o","w","n">>
UnknownProgram == <<"U","n","k","n","o","w","n"," ","P","r","o","g","r","a","m">>
UnknownWord == <<"U","n","k","n","o","w","n">>

\* value || fallback for an optional string
OrElse(value, fallback) ==
    IF Len(value) = 1 /\ value[1] # <<>> THEN value[1] ELSE fallback

\* compares with >= instead of >
StrengthOf_Inclusive(normalizedValue) ==
    IF RLeq(Rat(7, 10), normalizedValue) THEN "strong"
    ELSE IF RLeq(Rat(4, 10), normalizedValue) THEN "moderate"
    ELSE "weak"

\* s.normalizedValue > 0.7 ? 'strong' : s.normalizedValue > 0.4 ? 'moderate' : 'weak'
StrengthOf(normalizedValue) ==
    IF RLt(Rat(7, 10), normalizedValue) THEN "strong"
    ELSE IF RLt(Rat(4, 10), normalizedValue) THEN "moderate"
    ELSE "weak"

\* compares with >= instead of >
activityLevelOf_Inclusive(commits) ==
    IF commits >= 20 THEN "highly active"
    ELSE IF commits >= 5 THEN "moderately active"
    ELSE "low activity"

\* commits > 20 ? 'highly active' : commits > 5 ? 'moderately active' : 'low activity'
activityLevelOf(commits) ==
    IF commits > 20 THEN "highly active"
    ELSE IF commits > 5 THEN "moderately active"
    ELSE "low activity"

generateProjectSummary(res, scoresArg) ==
    LET languages == safeObject(Prop(res, "languages"), DefaultLanguages)
        activity == safeObject(Prop(res, "activity"), DefaultActivity)
        keys == ObjectKeys(languages)
        primaryLang == IF Len(keys) > 0 /\ keys[1] # "" THEN keys[1] ELSE "Unknown"
        commits == safeNumber(Prop(activity, "commits30d"), 0)
        activityLevel == activityLevelOf(commits)
        readiness ==
            IF scoresArg.capitalReadiness.score >= 70 THEN "capital-ready"
            ELSE IF scoresArg.capitalReadiness.score >= 50 THEN "developing"
            ELSE "early-stage"
    IN  IF Raises(<<res, languages, activity>>) THEN Thrown
        ELSE Ok([template |-> "A {activityLevel} {primaryLang} project showing {readiness} characteristics with an overall score of {overall}/100.",
                 activityLevel |-> activityLevel, primaryLang |-> primaryLang,
                 readiness |-> readiness, overall |-> scoresArg.overall])

\* takes the program name for the ecosystem
GrantRecommendationOf_ProgramAsEcosystem(match) ==
    [grantId |-> ReplaceWhitespace(toLowerCase(OrElse(Prop(match, "program"), UnknownLower))),
     programName |-> OrElse(Prop(match, "program"), UnknownProgram),
     ecosystem |-> OrElse(Prop(match, "program"), UnknownWord),
     confidence |-> safeNumber(Prop(match, "fitScore"), 0),
     whyFits |-> safeArray(Prop(match, "why"), <<>>),
     applyUrl |-> Prop(match, "url")]

GrantRecommendationOf(match) ==
    [grantId |-> ReplaceWhitespace(toLowerCase(OrElse(Prop(match, "program"), UnknownLower))),
     programName |-> OrElse(Prop(match, "program"), UnknownProgram),
     ecosystem |-> OrElse(Prop(match, "ecosystem"), UnknownWord),
     confidence |-> safeNumber(Prop(match, "fitScore"), 0),
     whyFits |-> safeArray(Prop(match, "why"), <<>>),
     applyUrl |-> Prop(match, "url")]

\* [...signals].sort((a, b) => b.normalizedValue - a.normalizedValue)
sortedByNormalizedValue(sigs) ==
    LET order == SortedIndicesDesc([i \in 1..Len(sigs) |-> sigs[i].normalizedValue])
    IN  [i \in 1..Len(sigs) |-> sigs[order[i]]]

\* signals.sort(...): the array passed in is itself reordered
signalsAfterSort_InPlace(sigs, sorted) == sorted

\* the signals array passed in, once the spread copy [...signals] has been sorted
signalsAfterSort(sigs, sorted) == sigs

generateOpportunityCard(res, sigs, scoresArg, t) ==
    IF Falsy(res)
    THEN Ok([id |-> <<"opp-", t>>, projectId |-> <<"u","n","k","n","o","w","n">>,
             projectName |-> <<"U","n","k","n","o","w","n"," ","P","r","o","j","e","c","t">>,
             projectUrl |-> <<>>,
             summary |-> [template |-> "No analysis data available"],
             strongestSignals |-> <<>>, riskFlags |-> <<>>, scores |-> scoresArg,
             grantRecommendations |-> <<>>, nextActions |-> <<>>, generatedAt |-> t])
    ELSE
    LET flags == detectRiskFlags(sigs, res, t)
        actions == generateNextActions(sigs, res, flags.value)
        sortedSignals == sortedByNormalizedValue(sigs)
        top == Slice(sortedSignals, 4)
        strongestSignals ==
            [i \in 1..Len(top) |->
                [label |-> top[i].label, value |-> top[i].rawValue,
                 strength |-> StrengthOf(top[i].normalizedValue)]]
        grantFit == safeObject(Prop(res, "grantFit"), DefaultGrantFit)
        matches == safeArray(Prop(grantFit, "matches"), <<>>)
        grantRecommendations ==
            [i \in 1..Len(matches) |-> GrantRecommendationOf(matches[i])]
        summary == generateProjectSummary(res, scoresArg)
        repoStr == safeString(Prop(res, "repo"), <<>>)
        lastSeg == LastSegment(repoStr)
        repoName == IF lastSeg # <<>> THEN lastSeg
                    ELSE IF repoStr # <<>> THEN repoStr ELSE UnknownWord
    IN  IF flags.threw THEN Thrown
        ELSE IF actions.threw \/ Raises(<<res, grantFit>>) THEN Thrown
        ELSE IF summary.threw THEN Thrown
        ELSE Ok([id |-> <<"opp-", t>>, projectId |-> repoStr, projectName |-> repoName,
                 projectUrl |-> IF repoStr # <<>>
                                THEN <<"h","t","t","p","s",":","/","/","g","i","t","h","u","b",
                                       ".","c","o","m","/">> \o repoStr
                                ELSE <<>>,
                 summary |-> summary.value,
                 strongestSignals |-> strongestSignals, riskFlags |-> flags.value,
                 scores |-> scoresArg, grantRecommendations |-> grantRecommendations,
                 nextActions |-> actions.value, generatedAt |-> t])

(***************************************************************************)
(* Inputs of the scoring pipeline                                          *)
(***************************************************************************)
MaxTicks == 1        \* how many hours the clock may advance during a run
MaxFlags == 2        \* length of a caller-supplied risk-flag list

Now0 == 20000 * HoursPerDay
DaysAgo(days, hours) == <<Now0 - days * HoursPerDay - hours>>

EmptyObj == [k \in {} |-> 0]

NoteTests == <<"h","a","s"," ","t","e","s","t","s">>
NoteCI == <<"h","a","s"," ","C","I">>
NoteReadme == <<"h","a","s"," ","R","E","A","D","M","E">>
NoteUnitTests == <<"U","n","i","t"," ","T","E","S","T","S">>
NoteSpecs == <<"R","S","p","e","c">>
NoteLicense == <<"M","I","T">>

ProgramA == <<"A","v","a","x"," "," ","G","r","a","n","t">>
MatchA == [program |-> ProgramA, ecosystem |-> <<"a","v","a","x">>, fitScore |-> 90,
           why |-> <<"Solidity">>, url |-> "https://a"]
MatchB == [ecosystem |-> <<"e","t","h">>, fitScore |-> 40]

CommunityChoices ==
    { EmptyObj,
      [stars |-> 1000, forks |-> 50, repo |-> <<"o","/","r">>],
      [stars |-> 49, forks |-> 0, repo |-> <<"r">>],
      [stars |-> 20000, forks |-> 600] }

CodeQualityChoices ==
    { EmptyObj,
      [codeQuality |-> [score |-> 85, notes |-> <<NoteTests, NoteCI, NoteReadme>>]],
      [codeQuality |-> [score |-> 100,
                        notes |-> <<NoteCI, NoteReadme, NoteLicense, NoteSpecs,
                                    NoteCI, NoteLicense>>]],
      [codeQuality |-> [notes |-> <<NoteUnitTests>>]],
      [codeQuality |-> [score |-> 150, notes |-> <<NoteCI>>]] }

IssuesChoices ==
    { EmptyObj,
      [issues |-> [open |-> 5, closed |-> 45]],
      [issues |-> [open |-> 11, closed |-> 1]],
      [issues |-> [closed |-> 7]] }

ActivityChoices ==
    { EmptyObj,
      [activity |-> [lastCommit |-> DaysAgo(20, 5), commits30d |-> 25]],
      [activity |-> [lastCommit |-> DaysAgo(200, 0), commits30d |-> 0]],
      [activity |-> [lastCommit |-> DaysAgo(60, HoursPerDay - 1), commits30d |-> 5]],
      [activity |-> [commits30d |-> 100]],
      [activity |-> [lastCommit |-> DaysAgo(-2, 0), commits30d |-> 20]] }

LanguagesA ==
    [entries |-> << [name |-> "Solidity", share |-> 60],
                    [name |-> "TypeScript", share |-> 40] >>]
LanguagesB ==
    [entries |-> << [name |-> "Rust", share |-> 40],
                    [name |-> "Solidity", share |-> 30],
                    [name |-> "JavaScript", share |-> 20],
                    [name |-> "Python", share |-> 10] >>]
GrantFitFull ==
    [signals |-> <<"defi", "evm", "audited", "oss", "sdk", "dao">>,
     recommendations |-> <<"apply">>,
     matches |-> <<MatchA, MatchB>>]
GrantFitPartial == [signals |-> <<"defi", "evm">>, matches |-> <<MatchB>>]

\* the languages and grantFit fields
EcosystemChoices ==
    { EmptyObj,
      [languages |-> LanguagesA],
      [languages |-> LanguagesA, grantFit |-> GrantFitFull],
      [languages |-> LanguagesB, grantFit |-> GrantFitFull],
      [grantFit |-> GrantFitPartial] }

Telemetries ==
    { c @@ q @@ i @@ a @@ e :
        c \in CommunityChoices, q \in CodeQualityChoices, i \in IssuesChoices,
        a \in ActivityChoices, e \in EcosystemChoices }

RepoAnalysisResults == Telemetries \cup {Null, Undefined}

\* telemetry on either side of every threshold the code compares against
BoundaryCommunity ==
    { [stars |-> 4], [stars |-> 5], [stars |-> 49], [stars |-> 50] }
BoundaryIssues ==
    { [issues |-> [open |-> 9, closed |-> 1]],
      [issues |-> [open |-> 9, closed |-> 2]],
      [issues |-> [open |-> 8, closed |-> 3]],
      [issues |-> [open |-> 40, closed |-> 10]] }
BoundaryActivity ==
    { EmptyObj,
      [activity |-> [lastCommit |-> DaysAgo(180, HoursPerDay - 1), commits30d |-> 5]],
      [activity |-> [lastCommit |-> DaysAgo(181, 0), commits30d |-> 20]],
      [activity |-> [lastCommit |-> DaysAgo(60, 0), commits30d |-> 21]],
      [activity |-> [lastCommit |-> DaysAgo(61, 0), commits30d |-> 6]] }
BoundaryCodeQuality ==
    { [codeQuality |-> [score |-> 70, notes |-> <<NoteCI, NoteReadme>>]],
      [codeQuality |-> [score |-> 40, notes |-> <<NoteTests, NoteCI, NoteReadme>>]] }
BoundaryGrantFit ==
    { [languages |-> LanguagesA], [grantFit |-> GrantFitFull] }

BoundaryTelemetries ==
    { c @@ q @@ i @@ a @@ e :
        c \in BoundaryCommunity, q \in BoundaryCodeQuality, i \in BoundaryIssues,
        a \in BoundaryActivity, e \in BoundaryGrantFit }

FlagKinds ==
    { RiskFlag("critical", <<"No commits in days", 200>>, "activity"),
      RiskFlag("warning", <<"Low community visibility (few stars)", 0>>, "community") }

FlagLists == UNION { [1..n -> FlagKinds] : n \in 0..MaxFlags }

(***************************************************************************)
(* The pipeline as the OpportunityCard component runs it, and the two      *)
(* exported helpers called directly                                        *)
(***************************************************************************)
Unset == <<>>

ScoringInit ==
    /\ result \in RepoAnalysisResults
    /\ now = Now0
    /\ pc = "start"
    /\ signals = Unset
    /\ scores = Unset
    /\ card = Unset
    /\ riskFlags = Unset
    /\ nextActions = Unset
    /\ threw = FALSE

BoundaryInit ==
    /\ result \in BoundaryTelemetries \cup {Null}
    /\ now = Now0
    /\ pc = "start"
    /\ signals = Unset
    /\ scores = Unset
    /\ card = Unset
    /\ riskFlags = Unset
    /\ nextActions = Unset
    /\ threw = FALSE

\* Date.now() advances between calls
Tick ==
    /\ pc \in {"start", "extracted", "scored"}
    /\ now < Now0 + MaxTicks
    /\ now' = now + 1
    /\ UNCHANGED <<result, pc, signals, scores, card, riskFlags, nextActions, threw>>

ExtractSignals ==
    /\ pc = "start"
    /\ LET r == extractSignals(result, now)
       IN  IF r.threw
           THEN /\ threw' = TRUE
                /\ pc' = "raised"
                /\ UNCHANGED signals
           ELSE /\ signals' = r.value
                /\ pc' = "extracted"
                /\ UNCHANGED threw
    /\ UNCHANGED <<result, now, scores, card, riskFlags, nextActions>>

CalculateScores ==
    /\ pc = "extracted"
    /\ LET r == calculateScores(signals, result, now)
       IN  IF r.threw
           THEN /\ threw' = TRUE
                /\ pc' = "raised"
                /\ UNCHANGED scores
           ELSE /\ scores' = r.value
                /\ pc' = "scored"
                /\ UNCHANGED threw
    /\ UNCHANGED <<result, now, signals, card, riskFlags, nextActions>>

GenerateOpportunityCard ==
    /\ pc = "scored"
    /\ LET r == generateOpportunityCard(result, signals, scores, now)
       IN  IF r.threw
           THEN /\ threw' = TRUE
                /\ pc' = "raised"
                /\ UNCHANGED <<card, signals>>
           ELSE /\ card' = r.value
                /\ pc' = "done"
                /\ signals' =
                      IF Falsy(result) THEN signals
                      ELSE signalsAfterSort(signals, sortedByNormalizedValue(signals))
                /\ UNCHANGED threw
    /\ UNCHANGED <<result, now, scores, riskFlags, nextActions>>

DetectRiskFlags ==
    /\ pc = "extracted"
    /\ LET r == detectRiskFlags(signals, result, now)
       IN  IF r.threw
           THEN /\ threw' = TRUE
                /\ pc' = "raised"
                /\ UNCHANGED riskFlags
           ELSE /\ riskFlags' = r.value
                /\ pc' = "flagged"
                /\ UNCHANGED threw
    /\ UNCHANGED <<result, now, signals, scores, card, nextActions>>

GenerateNextActions ==
    /\ pc = "extracted"
    /\ \E flags \in FlagLists :
         LET r == generateNextActions(signals, result, flags)
         IN  IF r.threw
             THEN /\ threw' = TRUE
                  /\ pc' = "raised"
                  /\ UNCHANGED nextActions
             ELSE /\ nextActions' = r.value
                  /\ pc' = "actioned"
                  /\ UNCHANGED threw
    /\ UNCHANGED <<result, now, signals, scores, card, riskFlags>>

(***************************************************************************)
(* data/niches.ts and matching.ts                                          *)
(***************************************************************************)
NICHES ==
    << [id |-> "defi",
        tags |-> <<<<"D","e","F","i">>, <<"A","M","M">>, <<"D","E","X">>, <<"L","e","n","d","i","n","g">>, <<"Y","i","e","l","d">>>>,
        recommendedChains |-> <<<<"e","t","h","e","r","e","u","m">>, <<"a","v","a","l","a","n","c","h","e">>, <<"p","o","l","y","g","o","n">>, <<"a","r","b","i","t","r","u","m">>, <<"b","a","s","e">>>>],
       [id |-> "gaming",
        tags |-> <<<<"G","a","m","i","n","g">>, <<"G","a","m","e","F","i">>, <<"N","F","T">>, <<"M","e","t","a","v","e","r","s","e">>>>,
        recommendedChains |-> <<<<"e","t","h","e","r","e","u","m">>, <<"p","o","l","y","g","o","n">>, <<"a","v","a","l","a","n","c","h","e">>, <<"i","m","m","u","t","a","b","l","e">>>>],
       [id |-> "infra",
        tags |-> <<<<"I","n","f","r","a","s","t","r","u","c","t","u","r","e">>, <<"T","o","o","l","i","n","g">>, <<"I","n","d","e","x","i","n","g">>, <<"S","D","K">>, <<"D","a","t","a">>>>,
        recommendedChains |-> <<<<"m","u","l","t","i","-","c","h","a","i","n">>, <<"e","t","h","e","r","e","u","m">>, <<"c","o","s","m","o","s">>>>],
       [id |-> "ai-crypto",
        tags |-> <<<<"A","I">>, <<"M","L">>, <<"A","g","e","n","t","s">>, <<"D","a","t","a">>, <<"C","o","m","p","u","t","e">>>>,
        recommendedChains |-> <<<<"m","u","l","t","i","-","c","h","a","i","n">>, <<"e","t","h","e","r","e","u","m">>, <<"s","o","l","a","n","a">>>>],
       [id |-> "public-goods",
        tags |-> <<<<"P","u","b","l","i","c"," ","G","o","o","d","s">>, <<"O","p","e","n"," ","S","o","u","r","c","e">>, <<"C","o","m","m","u","n","i","t","y">>, <<"Q","F">>, <<"R","e","t","r","o","a","c","t","i","v","e">>>>,
        recommendedChains |-> <<<<"e","t","h","e","r","e","u","m">>, <<"o","p","t","i","m","i","s","m">>, <<"m","u","l","t","i","-","c","h","a","i","n">>>>],
       [id |-> "rwa",
        tags |-> <<<<"R","W","A">>, <<"T","o","k","e","n","i","z","a","t","i","o","n">>, <<"D","e","F","i">>, <<"E","n","t","e","r","p","r","i","s","e">>>>,
        recommendedChains |-> <<<<"e","t","h","e","r","e","u","m">>, <<"a","v","a","l","a","n","c","h","e">>, <<"p","o","l","y","g","o","n">>>>],
       [id |-> "consumer",
        tags |-> <<<<"S","o","c","i","a","l">>, <<"C","o","n","s","u","m","e","r">>, <<"C","r","e","a","t","o","r">>, <<"L","e","n","s">>, <<"W","e","b","3"," ","S","o","c","i","a","l">>>>,
        recommendedChains |-> <<<<"p","o","l","y","g","o","n">>, <<"b","a","s","e">>, <<"o","p","t","i","m","i","s","m">>, <<"e","t","h","e","r","e","u","m">>>>],
       [id |-> "wallets",
        tags |-> <<<<"W","a","l","l","e","t">>, <<"A","A">>, <<"A","c","c","o","u","n","t"," ","A","b","s","t","r","a","c","t","i","o","n">>, <<"S","e","c","u","r","i","t","y">>>>,
        recommendedChains |-> <<<<"e","t","h","e","r","e","u","m">>, <<"p","o","l","y","g","o","n">>, <<"b","a","s","e">>, <<"m","u","l","t","i","-","c","h","a","i","n">>>>],
       [id |-> "payments",
        tags |-> <<<<"P","a","y","m","e","n","t","s">>, <<"S","t","a","b","l","e","c","o","i","n">>, <<"C","o","m","m","e","r","c","e">>, <<"D","e","F","i">>>>,
        recommendedChains |-> <<<<"e","t","h","e","r","e","u","m">>, <<"a","v","a","l","a","n","c","h","e">>, <<"p","o","l","y","g","o","n">>, <<"s","o","l","a","n","a">>>>],
       [id |-> "education",
        tags |-> <<<<"E","d","u","c","a","t","i","o","n">>, <<"L","e","a","r","n">>, <<"D","e","v","e","l","o","p","e","r">>, <<"O","n","b","o","a","r","d","i","n","g">>, <<"C","o","m","m","u","n","i","t","y">>>>,
        recommendedChains |-> <<<<"m","u","l","t","i","-","c","h","a","i","n">>, <<"e","t","h","e","r","e","u","m">>, <<"p","o","l","y","g","o","n">>>>] >>


CHAIN_ECOSYSTEM_MAP ==
    << [chain |-> <<"e","t","h","e","r","e","u","m">>,
        ecosystems |-> <<<<"e","t","h","e","r","e","u","m">>, <<"m","u","l","t","i","-","c","h","a","i","n">>>>],
       [chain |-> <<"a","v","a","l","a","n","c","h","e">>,
        ecosystems |-> <<<<"a","v","a","l","a","n","c","h","e">>, <<"m","u","l","t","i","-","c","h","a","i","n">>>>],
       [chain |-> <<"p","o","l","y","g","o","n">>,
        ecosystems |-> <<<<"p","o","l","y","g","o","n">>, <<"m","u","l","t","i","-","c","h","a","i","n">>>>],
       [chain |-> <<"s","o","l","a","n","a">>,
        ecosystems |-> <<<<"s","o","l","a","n","a">>, <<"m","u","l","t","i","-","c","h","a","i","n">>>>],
       [chain |-> <<"c","o","s","m","o","s">>,
        ecosystems |-> <<<<"c","o","s","m","o","s">>, <<"m","u","l","t","i","-","c","h","a","i","n">>>>],
       [chain |-> <<"a","r","b","i","t","r","u","m">>,
        ecosystems |-> <<<<"e","t","h","e","r","e","u","m">>, <<"m","u","l","t","i","-","c","h","a","i","n">>>>],
       [chain |-> <<"b","a","s","e">>,
        ecosystems |-> <<<<"e","t","h","e","r","e","u","m">>, <<"m","u","l","t","i","-","c","h","a","i","n">>>>],
       [chain |-> <<"o","p","t","i","m","i","s","m">>,
        ecosystems |-> <<<<"e","t","h","e","r","e","u","m">>, <<"m","u","l","t","i","-","c","h","a","i","n">>>>],
       [chain |-> <<"m","u","l","t","i","-","c","h","a","i","n">>,
        ecosystems |-> <<<<"m","u","l","t","i","-","c","h","a","i","n">>, <<"e","t","h","e","r","e","u","m">>, <<"a","v","a","l","a","n","c","h","e">>, <<"p","o","l","y","g","o","n">>, <<"s","o","l","a","n","a">>, <<"c","o","s","m","o","s">>>>],
       [chain |-> <<"i","m","m","u","t","a","b","l","e">>,
        ecosystems |-> <<<<"e","t","h","e","r","e","u","m">>, <<"m","u","l","t","i","-","c","h","a","i","n">>>>] >>


RECURSIVE MapLower(_)
MapLower(strs) ==
    IF strs = <<>> THEN <<>> ELSE <<toLowerCase(Head(strs))>> \o MapLower(Tail(strs))
SeqIncludes(seq, x) == \E i \in 1..Len(seq) : seq[i] = x

MultiChain == <<"m","u","l","t","i","-","c","h","a","i","n">>

\* knows no aliases: every chain stands for itself only
EcosystemsOf_ChainOnly(chain) == <<toLowerCase(chain)>>

\* CHAIN_ECOSYSTEM_MAP[chain.toLowerCase()] || [chain.toLowerCase()]
EcosystemsOf(chain) ==
    LET hit == SelectSeq(CHAIN_ECOSYSTEM_MAP, LAMBDA e : e.chain = toLowerCase(chain))
    IN  IF Len(hit) > 0 THEN hit[1].ecosystems ELSE <<toLowerCase(chain)>>

\* for (const chain of chains) { if (ecosystems.includes(eco)) { ...; break; } }
RECURSIVE ChainLoop(_, _)
ChainLoop(chains, grantEcosystem) ==
    IF chains = <<>> THEN FALSE
    ELSE IF SeqIncludes(EcosystemsOf(Head(chains)), grantEcosystem) THEN TRUE
    ELSE ChainLoop(Tail(chains), grantEcosystem)

\* gt.includes(nt) || nt.includes(gt)
TagsOverlap(gt, nt) == includes(gt, nt) \/ includes(nt, gt)

\* adds 2 for every grant tag the niche tag overlaps
RECURSIVE TagScore_PerPair(_, _)
TagScore_PerPair(nicheTags, grantTags) ==
    IF nicheTags = <<>> THEN 0
    ELSE 2 * Cardinality({ i \in 1..Len(grantTags) :
                             TagsOverlap(grantTags[i], Head(nicheTags)) })
         + TagScore_PerPair(Tail(nicheTags), grantTags)

RECURSIVE TagScore(_, _)
TagScore(nicheTags, grantTags) ==
    IF nicheTags = <<>> THEN 0
    ELSE (IF \E i \in 1..Len(grantTags) : TagsOverlap(grantTags[i], Head(nicheTags))
          THEN 2 ELSE 0)
         + TagScore(Tail(nicheTags), grantTags)

\* sorts ascending: a - b
scoreComparatorKey_Ascending(score) == Int2R(-score)

\* the key the comparator scoreGrantMatch(niche, b) - scoreGrantMatch(niche, a) orders by
scoreComparatorKey(score) == Int2R(score)

scoreGrantMatch(niche, grant) ==
    LET nicheTags == MapLower(niche.tags)
        grantTags == MapLower(grant.tags)
        tagScore == TagScore(nicheTags, grantTags)
        categoryScore ==
            IF \E i \in 1..Len(nicheTags) :
                  includes(nicheTags[i], toLowerCase(grant.category))
            THEN 2 ELSE 0
        grantEcosystem == toLowerCase(grant.ecosystem)
        chainScore ==
            IF ChainLoop(niche.recommendedChains, grantEcosystem) THEN 1 ELSE 0
    IN  tagScore + categoryScore + chainScore

\* ignores the category
hasTagMatch_TagsOnly(nicheTags, grant) ==
    \E n \in 1..Len(nicheTags) :
        \E i \in 1..Len(grant.tags) :
            TagsOverlap(toLowerCase(grant.tags[i]), nicheTags[n])

hasTagMatch(nicheTags, grant) ==
    LET grantTags == MapLower(grant.tags)
        grantCategory == toLowerCase(grant.category)
    IN  \E n \in 1..Len(nicheTags) :
            \/ \E i \in 1..Len(grantTags) : TagsOverlap(grantTags[i], nicheTags[n])
            \/ includes(grantCategory, nicheTags[n])
            \/ includes(nicheTags[n], grantCategory)

hasChainMatch(niche, grant) ==
    LET grantEcosystem == toLowerCase(grant.ecosystem)
    IN  IF grantEcosystem = MultiChain THEN TRUE
        ELSE ChainLoop(niche.recommendedChains, grantEcosystem)

\* returns hasTagMatch || hasChainMatch
matchesNiche_Either(tagMatch, chainMatch) == tagMatch \/ chainMatch

\* return hasTagMatch && hasChainMatch
matchesNiche(tagMatch, chainMatch) == tagMatch /\ chainMatch

\* grants.sort(...): the array passed in is itself filtered down and reordered
grantsAfterFilter_InPlace(grants, returned) == returned

\* the grants array passed in, once grants.filter(...) has built the array
\* that is sorted and returned
grantsAfterFilter(grants, returned) == grants

matchGrantsForNiche(id, grants) ==
    LET found == SelectSeq(NICHES, LAMBDA n : n.id = id)
    IN  IF Len(found) = 0 THEN <<>>
        ELSE
        LET niche == found[1]
            nicheTags == MapLower(niche.tags)
            filtered ==
                SelectSeq(grants,
                          LAMBDA g : matchesNiche(hasTagMatch(nicheTags, g),
                                                 hasChainMatch(niche, g)))
            order ==
                SortedIndicesDesc([i \in 1..Len(filtered) |->
                                     scoreComparatorKey(scoreGrantMatch(niche, filtered[i]))])
        IN  [i \in 1..Len(filtered) |-> filtered[order[i]]]

getNicheById(id) ==
    LET found == SelectSeq(NICHES, LAMBDA n : n.id = id)
    IN  IF Len(found) = 0 THEN <<>> ELSE <<found[1]>>

(***************************************************************************)
(* Inputs of the matcher                                                   *)
(***************************************************************************)
MaxCatalog == 2      \* longest grant catalog

\* entries of grantsData (id, category, ecosystem, tags), and two further
\* grants: x1 overlaps niche tags only as a substring, x2 only by a category
\* that contains a niche tag
GrantPool ==
    { [id |-> "1", category |-> <<"d","e","f","i">>, ecosystem |-> <<"a","v","a","l","a","n","c","h","e">>,
       tags |-> <<<<"D","e","F","i">>, <<"A","v","a","l","a","n","c","h","e">>, <<"S","m","a","r","t"," ","C","o","n","t","r","a","c","t","s">>>>],
      [id |-> "3", category |-> <<"t","o","o","l","i","n","g">>, ecosystem |-> <<"p","o","l","y","g","o","n">>,
       tags |-> <<<<"P","o","l","y","g","o","n">>, <<"L","2">>, <<"z","k","E","V","M">>>>],
      [id |-> "4", category |-> <<"d","e","f","i">>, ecosystem |-> <<"m","u","l","t","i","-","c","h","a","i","n">>,
       tags |-> <<<<"D","E","X">>, <<"A","M","M">>, <<"D","e","F","i">>>>],
      [id |-> "5", category |-> <<"i","n","f","r","a","s","t","r","u","c","t","u","r","e">>, ecosystem |-> <<"o","t","h","e","r">>,
       tags |-> <<<<"S","t","o","r","a","g","e">>, <<"I","P","F","S">>, <<"F","i","l","e","c","o","i","n">>>>],
      [id |-> "6", category |-> <<"t","o","o","l","i","n","g">>, ecosystem |-> <<"m","u","l","t","i","-","c","h","a","i","n">>,
       tags |-> <<<<"I","n","d","e","x","i","n","g">>, <<"S","u","b","g","r","a","p","h","s">>, <<"D","a","t","a">>>>],
      [id |-> "13", category |-> <<"s","o","c","i","a","l">>, ecosystem |-> <<"p","o","l","y","g","o","n">>,
       tags |-> <<<<"S","o","c","i","a","l">>, <<"L","e","n","s">>, <<"W","e","b","3"," ","S","o","c","i","a","l">>>>],
      [id |-> "16", category |-> <<"d","e","f","i">>, ecosystem |-> <<"e","t","h","e","r","e","u","m">>,
       tags |-> <<<<"L","2">>, <<"D","e","F","i">>, <<"A","r","b","i","t","r","u","m">>, <<"S","c","a","l","i","n","g">>>>],
      [id |-> "x1", category |-> <<"o","t","h","e","r">>, ecosystem |-> <<"e","t","h","e","r","e","u","m">>,
       tags |-> <<<<"G","a","m","e">>, <<"H","a","c","k">>>>],
      [id |-> "x2", category |-> <<"n","f","t","s">>, ecosystem |-> <<"m","u","l","t","i","-","c","h","a","i","n">>,
       tags |-> <<<<"A","r","t">>>>] }

NicheIds == { NICHES[i].id : i \in 1..Len(NICHES) } \cup {"unknown"}

IsInjective(seq) == \A i, j \in 1..Len(seq) : i # j => seq[i] # seq[j]

Catalogs ==
    UNION { { c \in [1..n -> GrantPool] : IsInjective(c) } : n \in 0..MaxCatalog }

\* the grant with every tag that overlaps a tag of the niche removed
StripOverlappingTags(niche, grant) ==
    [grant EXCEPT !.tags =
        SelectSeq(grant.tags,
                  LAMBDA gt : ~ \E n \in 1..Len(niche.tags) :
                                  TagsOverlap(toLowerCase(gt), toLowerCase(niche.tags[n])))]

StrippedCatalog(id, grants) ==
    LET n == getNicheById(id)
    IN  IF n = <<>> THEN grants
        ELSE [i \in 1..Len(grants) |-> StripOverlappingTags(n[1], grants[i])]

MatchInit ==
    /\ nicheId \in NicheIds
    /\ catalog \in Catalogs
    /\ matched = <<"pending">>
    /\ strippedRun = <<"pending">>

MatchGrantsForNiche ==
    /\ matched = <<"pending">>
    /\ matched' = <<"returned", matchGrantsForNiche(nicheId, catalog)>>
    /\ catalog' = grantsAfterFilter(catalog, matchGrantsForNiche(nicheId, catalog))
    /\ UNCHANGED <<nicheId, strippedRun>>

\* the same call on the catalog whose grants lost their overlapping tags
MatchStrippedCatalog ==
    /\ strippedRun = <<"pending">>
    /\ strippedRun' =
          <<"returned", matchGrantsForNiche(nicheId, StrippedCatalog(nicheId, catalog))>>
    /\ UNCHANGED <<nicheId, catalog, matched>>

(***************************************************************************)
(* normalizeValue applied to two inputs under one threshold set            *)
(***************************************************************************)
ThresholdKeys == DOMAIN SIGNAL_THRESHOLDS

\* the top bound: the exceptional tier, or high * 2 when none is configured
TopBound(th) == IF th.exceptional # <<>> THEN th.exceptional[1] ELSE th.high * 2

NormInputs(th) ==
    { -1, 0, 1, th.low, th.low + 1, th.medium, th.medium + 1, th.high, th.high + 1,
      TopBound(th) - 1, TopBound(th), TopBound(th) + 1, TopBound(th) * 2 }

NormInit ==
    nv \in UNION { { [key |-> k, a |-> x, b |-> y, called |-> FALSE,
                       outA |-> R0, outB |-> R0] :
                        x \in NormInputs(SIGNAL_THRESHOLDS[k]),
                        y \in NormInputs(SIGNAL_THRESHOLDS[k]) } : k \in ThresholdKeys }

NormalizeValue ==
    /\ ~nv.called
    /\ nv' = [nv EXCEPT !.called = TRUE,
                        !.outA = normalizeValue(nv.a, SIGNAL_THRESHOLDS[nv.key]),
                        !.outB = normalizeValue(nv.b, SIGNAL_THRESHOLDS[nv.key])]

(***************************************************************************)
(* lib/storage.ts: the localStorage entries of the app                     *)
(***************************************************************************)
MAX_HISTORY == 50    \* if (history.length > 50) history.pop()

\* no key is stored
StorageEmpty ==
    [unlocked |-> "absent", payer |-> "absent",
     history |-> [stored |-> "absent", items |-> <<>>]]

\* localStorage.getItem(STORAGE_KEYS.UNLOCKED) === 'true'
isGrantsUnlocked(st) == st.unlocked = "true"

unlockGrants(st, payerAddress) ==
    [st EXCEPT !.unlocked = "true", !.payer = payerAddress]

\* JSON.parse(data): the stored list, or a SyntaxError for text that is not JSON
ParseHistory(history) ==
    IF history.stored = "json" THEN Ok(history.items) ELSE Thrown

\* try { return data ? JSON.parse(data) : [] } catch { return [] }
getAnalysisHistory(st) ==
    IF st.history.stored = "absent" THEN <<>>
    ELSE LET parsed == ParseHistory(st.history)
         IN  IF parsed.threw THEN <<>> ELSE parsed.value

AnalysisHistoryItem(timestamp, repoUrl, settlement) ==
    [id |-> timestamp, repoUrl |-> repoUrl, timestamp |-> timestamp,
     settlement |-> settlement]

\* drops the newest item instead of the oldest
HistoryAfterPop_Shift(history) ==
    IF Len(history) > MAX_HISTORY THEN Tail(history) ELSE history

\* if (history.length > 50) history.pop()
HistoryAfterPop(history) ==
    IF Len(history) > MAX_HISTORY THEN SubSeq(history, 1, Len(history) - 1)
    ELSE history

addToHistory(st, repoUrl, settlement, timestamp) ==
    LET history == getAnalysisHistory(st)
        item == AnalysisHistoryItem(timestamp, repoUrl, settlement)
        unshifted == <<item>> \o history
    IN  [st EXCEPT !.history = [stored |-> "json", items |-> HistoryAfterPop(unshifted)]]

clearAllData(st) == StorageEmpty

MaxAdds == 52        \* addToHistory calls in one run

\* the history key absent, or holding text that is not JSON
HistoryInit ==
    /\ storage \in { StorageEmpty,
                     [StorageEmpty EXCEPT !.history = [stored |-> "corrupt", items |-> <<>>]] }
    /\ now = Now0

\* a call of addToHistory; Date.now() has advanced since the last call
AddToHistory ==
    /\ now < Now0 + MaxAdds
    /\ now' = now + 1
    /\ storage' = addToHistory(storage, "repoUrl", "success", now')

(***************************************************************************)
(* lib/fetchWith402.ts: one call of fetchWith402, suspended at its awaits  *)
(***************************************************************************)
\* what an awaited fetch() settles with: a rejection, or a response with its
\* status, whether its body (for 402: its payment requirement) parses, and the
\* settlement the parsed body reports
Rejected(error) ==
    [rejected |-> error, status |-> 0, parses |-> FALSE, settlement |-> "absent"]
Response(status, parses, settlement) ==
    [rejected |-> "no", status |-> status, parses |-> parses, settlement |-> settlement]
NoResponse == Response(0, FALSE, "absent")

IsOk(response) == response.status >= 200 /\ response.status <= 299

Settlements == {"success", "failed", "absent"}

FetchOutcomes ==
    { Rejected("TypeError: Failed to fetch"), Rejected("Error") }
    \cup { Response(402, p, "absent") : p \in BOOLEAN }
    \cup { Response(500, p, "absent") : p \in BOOLEAN }
    \cup { Response(200, TRUE, s) : s \in Settlements }
    \cup { Response(200, FALSE, "absent") }

FetchIdle ==
    [pc |-> "idle", caller |-> "none", handler |-> FALSE,
     requests |-> <<>>, statuses |-> <<>>,
     response |-> NoResponse, paymentPayload |-> "none", retryResponse |-> NoResponse,
     code |-> "none", value |-> "none"]

\* onStatusChange?.(status)
Report(f, status) == [f EXCEPT !.statuses = Append(@, status)]

\* the catch block: onStatusChange?.('error'); throw
Throw(f, code) == [Report(f, "error") EXCEPT !.pc = "thrown", !.code = code]

\* the code the catch block gives an error that is not a FetchWith402Error
CaughtCode(error) ==
    IF error = "TypeError: Failed to fetch" THEN "NETWORK_ERROR" ELSE "UNKNOWN"

\* onStatusChange?.('success'); return await response.json()
ReturnBody(f, response) ==
    LET reported == Report(f, "success")
    IN  IF response.parses
        THEN [reported EXCEPT !.pc = "returned", !.value = response.settlement]
        ELSE Throw(reported, "UNKNOWN")

\* the call up to the first await fetch(url, ...)
StartFetch(caller, configured, handler) ==
    LET f == [FetchIdle EXCEPT !.caller = caller, !.handler = handler]
    IN  IF ~configured
        THEN [f EXCEPT !.pc = "thrown", !.code = "CONFIG_MISSING"]
        ELSE [Report(f, "requesting") EXCEPT
                 !.requests = Append(@, [payment |-> FALSE]), !.pc = "first"]

\* from the first response to the next await, return or throw
AfterFirstResponse(f, response) ==
    LET g == [f EXCEPT !.response = response]
    IN  IF response.rejected # "no" THEN Throw(g, CaughtCode(response.rejected))
        ELSE IF response.status = 402
        THEN LET h == Report(g, "payment_required")
             IN  IF ~response.parses THEN Throw(h, "API_ERROR")
                 ELSE IF ~f.handler THEN Throw(h, "PAYMENT_REJECTED")
                 ELSE [Report(h, "signing") EXCEPT !.pc = "payment"]
        ELSE IF ~IsOk(response) THEN Throw(g, "API_ERROR")
        ELSE ReturnBody(g, response)

\* from the settled onPaymentRequired promise to the retry's await fetch
AfterPayment(f, paymentPayload) ==
    LET g == [f EXCEPT !.paymentPayload = paymentPayload]
    IN  IF paymentPayload = "null" THEN Throw(g, "PAYMENT_REJECTED")
        ELSE [Report(g, "settling") EXCEPT
                 !.requests = Append(@, [payment |-> TRUE]), !.pc = "retry"]

\* from the retry response to the return or throw
AfterRetryResponse(f, response) ==
    LET g == [f EXCEPT !.retryResponse = response]
    IN  IF response.rejected # "no" THEN Throw(g, CaughtCode(response.rejected))
        ELSE LET h == Report(g, "retrying")
             IN  IF ~IsOk(response) THEN Throw(h, "SETTLEMENT_FAILED")
                 ELSE ReturnBody(h, response)

Settled(f) == f.pc \in {"returned", "thrown"}

(***************************************************************************)
(* pages/AnalyzePage.tsx: the page that calls fetchWith402 and owns the    *)
(* paywall modal                                                           *)
(***************************************************************************)
MaxAnalyses == 2     \* analyses started on one page

PageIdle ==
    [status |-> "idle", showPaywall |-> FALSE, paywallStep |-> "info",
     promise |-> "none", acted |-> FALSE, signing |-> FALSE, closeTimer |-> FALSE,
     walletClient |-> TRUE, address |-> TRUE, addressAtCall |-> FALSE, analyses |-> 0,
     result |-> "none", error |-> "none"]

\* const isLoading = ['validating', 'requesting', 'signing', 'settling', 'retrying'].includes(status)
isLoading(status) ==
    status \in {"validating", "requesting", "signing", "settling", "retrying"}

\* the onStatusChange callback handleAnalyze passes
onStatusChange(p, newStatus) ==
    IF newStatus = "success"
    THEN [p EXCEPT !.status = newStatus, !.paywallStep = "success", !.closeTimer = TRUE]
    ELSE [p EXCEPT !.status = newStatus]

RECURSIVE ApplyStatuses(_, _)
ApplyStatuses(p, reported) ==
    IF reported = <<>> THEN p
    ELSE ApplyStatuses(onStatusChange(p, Head(reported)), Tail(reported))

\* the statuses g reported after f
NewStatuses(f, g) == SubSeq(g.statuses, Len(f.statuses) + 1, Len(g.statuses))

\* new Promise((resolve) => { ...; setPaymentResolver({ resolve }) })
handlePaymentRequired(p) ==
    [p EXCEPT !.paywallStep = "info", !.showPaywall = TRUE,
              !.promise = "pending", !.acted = FALSE]

\* paymentResolver?.resolve(value): settles the promise if it is still pending
Resolve(p, value) ==
    IF p.promise = "pending" THEN [p EXCEPT !.promise = value] ELSE p

handlePaywallClose(p) ==
    LET closed == [p EXCEPT !.showPaywall = FALSE, !.acted = TRUE]
        resolved == IF p.paywallStep = "info" THEN Resolve(closed, "null") ELSE closed
    IN  [resolved EXCEPT !.paywallStep = "info"]

\* analysisResult.settlement?.success && address
UnlocksAfterAnalysis(settlement, address) == settlement = "success" /\ address

\* handleAnalyze after its await: the try block's rest, or the catch block
PageAfterFetch(p, f) ==
    IF f.pc = "returned" THEN [p EXCEPT !.result = f.value]
    ELSE IF f.pc = "thrown" THEN [p EXCEPT !.error = f.code, !.status = "error"]
    ELSE p

StorageAfterFetch(st, p, f) ==
    IF f.pc = "returned" /\ UnlocksAfterAnalysis(f.value, p.addressAtCall)
    THEN addToHistory(unlockGrants(st, "address"), "repoUrl", f.value, p.analyses)
    ELSE st

\* what a step of the fetchWith402 call from f to g does to the page and to
\* the storage: the status callbacks, the payment handler, and handleAnalyze's
\* continuation once the call has settled
PageAfterStep(p, f, g) ==
    IF g.caller # "page" THEN p
    ELSE LET reported == ApplyStatuses(p, NewStatuses(f, g))
             asked == IF g.pc = "payment" /\ f.pc # "payment"
                      THEN handlePaymentRequired(reported) ELSE reported
         IN  PageAfterFetch(asked, g)

StorageAfterStep(st, p, g) ==
    IF g.caller # "page" THEN st ELSE StorageAfterFetch(st, p, g)

\* the user presses Analyze: the guards of handleAnalyze, then fetchWith402
\* up to its first await
HandleAnalyze ==
    /\ ~isLoading(page.status)
    /\ fx.pc \in {"idle", "returned", "thrown"}
    /\ page.address
    /\ page.analyses < MaxAnalyses
    /\ LET started == [page EXCEPT !.error = "none", !.result = "none",
                                   !.status = "validating", !.analyses = @ + 1,
                                   !.addressAtCall = page.address]
           g == StartFetch("page", TRUE, TRUE)
       IN  /\ fx' = g
           /\ page' = PageAfterStep(started, FetchIdle, g)
    /\ UNCHANGED storage

\* another caller: no payment handler, the API base URL possibly not configured
FetchDirect ==
    /\ fx.pc = "idle"
    /\ page.status = "idle"
    /\ \E configured \in BOOLEAN : fx' = StartFetch("direct", configured, FALSE)
    /\ UNCHANGED <<page, storage>>

\* the first fetch settles
FirstResponse ==
    /\ fx.pc = "first"
    /\ \E response \in FetchOutcomes :
          LET g == AfterFirstResponse(fx, response)
          IN  /\ fx' = g
              /\ page' = PageAfterStep(page, fx, g)
              /\ storage' = StorageAfterStep(storage, page, g)

\* the user presses Pay or Retry in the modal
HandlePaymentConfirm ==
    /\ page.showPaywall
    /\ page.paywallStep \in {"info", "error"}
    /\ ~page.signing
    /\ IF ~page.walletClient \/ ~page.address
       THEN page' = [page EXCEPT !.paywallStep = "error", !.acted = TRUE]
       ELSE page' = [page EXCEPT !.paywallStep = "signing", !.signing = TRUE,
                                 !.acted = TRUE]
    /\ UNCHANGED <<fx, storage>>

\* createPaymentAuthorization settles: the wallet signed, or the signing failed
PaymentAuthorizationSettled ==
    /\ page.signing
    /\ \E signed \in BOOLEAN :
          page' = IF signed
                  THEN Resolve([page EXCEPT !.signing = FALSE, !.paywallStep = "settling"],
                               "payload")
                  ELSE Resolve([page EXCEPT !.signing = FALSE, !.paywallStep = "error"],
                               "null")
    /\ UNCHANGED <<fx, storage>>

\* fetchWith402 resumes after await onPaymentRequired(...)
PaymentPromiseSettled ==
    /\ fx.pc = "payment"
    /\ page.promise \in {"payload", "null"}
    /\ LET g == AfterPayment(fx, page.promise)
       IN  /\ fx' = g
           /\ page' = PageAfterStep(page, fx, g)
           /\ storage' = StorageAfterStep(storage, page, g)

\* the retry fetch settles
RetryResponse ==
    /\ fx.pc = "retry"
    /\ \E response \in FetchOutcomes :
          LET g == AfterRetryResponse(fx, response)
          IN  /\ fx' = g
              /\ page' = PageAfterStep(page, fx, g)
              /\ storage' = StorageAfterStep(storage, page, g)

\* the user presses Cancel, Close, Continue, the X or the backdrop
HandlePaywallClose ==
    /\ page.showPaywall
    /\ page.paywallStep \notin {"signing", "settling"}
    /\ page' = handlePaywallClose(page)
    /\ UNCHANGED <<fx, storage>>

\* setTimeout(() => setShowPaywall(false), 1500)
CloseTimer ==
    /\ page.closeTimer
    /\ page' = [page EXCEPT !.closeTimer = FALSE, !.showPaywall = FALSE]
    /\ UNCHANGED <<fx, storage>>

\* the wallet connects or disconnects (useAccount / useWalletClient)
WalletChange ==
    /\ \E connected \in BOOLEAN :
          /\ connected # page.walletClient
          /\ page' = [page EXCEPT !.walletClient = connected, !.address = connected]
    /\ UNCHANGED <<fx, storage>>

ClearAllData ==
    /\ storage # StorageEmpty
    /\ storage' = clearAllData(storage)
    /\ UNCHANGED <<fx, page>>

(***************************************************************************)
(* pages/AnalyzePage.tsx, the page that sends both requests itself         *)
(* (handleContinue, handlePaymentConfirm, handleAnalysisSuccess)           *)
(***************************************************************************)
\* an AnalysisResponse body: success?: boolean, settlement?: { success }
AnalysisResponse(success, settlement) == [success |-> success, settlement |-> settlement]
NoData == AnalysisResponse("absent", "absent")

AnalysisResponses ==
    { AnalysisResponse(success, settlement) :
        success \in {"true", "false", "absent"}, settlement \in Settlements }

\* what an awaited fetch() of this page settles with
LegacyRejected == [rejected |-> TRUE, status |-> 0, parses |-> FALSE, data |-> NoData]
LegacyResponse(status, parses, data) ==
    [rejected |-> FALSE, status |-> status, parses |-> parses, data |-> data]

LegacyOutcomes ==
    { LegacyRejected }
    \cup { LegacyResponse(402, p, NoData) : p \in BOOLEAN }
    \cup { LegacyResponse(500, TRUE, NoData), LegacyResponse(200, FALSE, NoData) }
    \cup { LegacyResponse(200, TRUE, d) : d \in AnalysisResponses }

LegacyIdle ==
    [step |-> "input", isLoading |-> FALSE, showPaywall |-> FALSE,
     paywallStep |-> "info", pending |-> "none", data |-> NoData,
     result |-> NoData, connected |-> TRUE, address |-> FALSE, analyses |-> 0]

\* (data.success || data.settlement?.success) && address
UnlocksOnSuccess(data, address) ==
    (data.success = "true" \/ data.settlement = "success") /\ address

\* handleAnalysisSuccess: the page state it sets
ResultsShown(l, data) ==
    [l EXCEPT !.result = data, !.step = "results", !.isLoading = FALSE]

\* handleAnalysisSuccess: what it stores
handleAnalysisSuccess(st, data, address, timestamp) ==
    IF UnlocksOnSuccess(data, address)
    THEN addToHistory(unlockGrants(st, "address"), "repoUrl", data.settlement, timestamp)
    ELSE st

handleError(l) == [l EXCEPT !.step = "error", !.isLoading = FALSE]

\* the user presses Continue: the guards of handleContinue, then the first fetch
HandleContinue ==
    /\ legacy.pending = "none"
    /\ ~legacy.isLoading
    /\ ~legacy.showPaywall
    /\ legacy.connected
    /\ legacy.analyses < MaxAnalyses
    /\ legacy' = [legacy EXCEPT !.isLoading = TRUE, !.step = "payment",
                                !.pending = "first", !.analyses = @ + 1,
                                !.address = legacy.connected]
    /\ UNCHANGED storage

\* handleContinue after its await fetch(...)
LegacyFirstResponse ==
    /\ legacy.pending = "first"
    /\ \E response \in LegacyOutcomes :
          LET l == [legacy EXCEPT !.pending = "none"]
          IN  IF response.rejected \/ ~response.parses
              THEN legacy' = handleError(l) /\ UNCHANGED storage
              ELSE IF response.status = 402
              THEN /\ legacy' = [l EXCEPT !.showPaywall = TRUE, !.paywallStep = "info",
                                          !.isLoading = FALSE]
                   /\ UNCHANGED storage
              ELSE IF response.status = 200
              THEN /\ legacy' = ResultsShown(l, response.data)
                   /\ storage' = handleAnalysisSuccess(storage, response.data,
                                                       legacy.address, legacy.analyses)
              ELSE legacy' = handleError(l) /\ UNCHANGED storage

\* the user presses Pay or Retry in the modal
LegacyPaymentConfirm ==
    /\ legacy.showPaywall
    /\ legacy.paywallStep \in {"info", "error"}
    /\ legacy.pending = "none"
    /\ IF ~legacy.connected
       THEN legacy' = [legacy EXCEPT !.paywallStep = "error"]
       ELSE legacy' = [legacy EXCEPT !.paywallStep = "signing", !.pending = "signing",
                                     !.address = legacy.connected]
    /\ UNCHANGED storage

\* handlePaymentConfirm after await createPaymentAuthorization: the retry
\* fetch is sent, or the signing failed
LegacySignatureSettled ==
    /\ legacy.pending = "signing"
    /\ \E signed \in BOOLEAN :
          legacy' = IF signed
                    THEN [legacy EXCEPT !.paywallStep = "settling", !.step = "settling",
                                        !.pending = "retry"]
                    ELSE [legacy EXCEPT !.paywallStep = "error", !.pending = "none"]
    /\ UNCHANGED storage

\* handlePaymentConfirm after the retry's await fetch(...)
LegacyRetryResponse ==
    /\ legacy.pending = "retry"
    /\ \E response \in LegacyOutcomes :
          legacy' = IF ~response.rejected /\ response.status = 200 /\ response.parses
                    THEN [legacy EXCEPT !.paywallStep = "success", !.pending = "timer",
                                        !.data = response.data]
                    ELSE [legacy EXCEPT !.paywallStep = "error", !.pending = "none"]
    /\ UNCHANGED storage

\* setTimeout(() => { setShowPaywall(false); handleAnalysisSuccess(data) }, 1500)
LegacySuccessTimer ==
    /\ legacy.pending = "timer"
    /\ legacy' = ResultsShown([legacy EXCEPT !.showPaywall = FALSE, !.pending = "none"],
                               legacy.data)
    /\ storage' = handleAnalysisSuccess(storage, legacy.data, legacy.address,
                                        legacy.analyses)

\* the user closes the modal
LegacyPaywallClose ==
    /\ legacy.showPaywall
    /\ legacy.paywallStep \notin {"signing", "settling"}
    /\ legacy' = [legacy EXCEPT !.showPaywall = FALSE,
                                !.step = IF legacy.paywallStep \in {"info", "error"}
                                         THEN "input" ELSE @]
    /\ UNCHANGED storage

\* the wallet connects or disconnects
LegacyWalletChange ==
    /\ legacy' = [legacy EXCEPT !.connected = ~@]
    /\ UNCHANGED storage

(***************************************************************************)
(* Specifications                                                          *)
(***************************************************************************)
ScoringIdle ==
    /\ result = Null /\ now = Now0 /\ pc = "idle" /\ signals = Unset
    /\ scores = Unset /\ card = Unset /\ riskFlags = Unset /\ nextActions = Unset
    /\ threw = FALSE
MatchIdle ==
    /\ nicheId = "unknown" /\ catalog = <<>>
    /\ matched = <<"idle">> /\ strippedRun = <<"idle">>
NormIdle ==
    nv = [key |-> "stars", a |-> 0, b |-> 0, called |-> TRUE, outA |-> R0, outB |-> R0]
AppIdle == fx = FetchIdle /\ page = PageIdle /\ storage = StorageEmpty /\ legacy = LegacyIdle

\* the scoring pipeline
Init == ScoringInit /\ MatchIdle /\ NormIdle /\ AppIdle
Next ==
    \/ Tick /\ UNCHANGED <<matchVars, normVars, appVars>>
    \/ ExtractSignals /\ UNCHANGED <<matchVars, normVars, appVars>>
    \/ CalculateScores /\ UNCHANGED <<matchVars, normVars, appVars>>
    \/ GenerateOpportunityCard /\ UNCHANGED <<matchVars, normVars, appVars>>
    \/ DetectRiskFlags /\ UNCHANGED <<matchVars, normVars, appVars>>
    \/ GenerateNextActions /\ UNCHANGED <<matchVars, normVars, appVars>>
Spec == Init /\ [][Next]_vars

\* the scoring pipeline on telemetry at the thresholds
InitBoundary == BoundaryInit /\ MatchIdle /\ NormIdle /\ AppIdle
SpecBoundary == InitBoundary /\ [][Next]_vars

\* the grant matcher
InitMatch == MatchInit /\ ScoringIdle /\ NormIdle /\ AppIdle
NextMatch ==
    \/ MatchGrantsForNiche /\ UNCHANGED <<scoringVars, normVars, appVars>>
    \/ MatchStrippedCatalog /\ UNCHANGED <<scoringVars, normVars, appVars>>
SpecMatch == InitMatch /\ [][NextMatch]_vars

\* the card generator and the grant matcher called by one page, on a few
\* telemetries and every catalog
CoreTelemetries ==
    { t \in Telemetries :
        /\ "stars" \in DOMAIN t /\ t.stars = 1000
        /\ "codeQuality" \in DOMAIN t /\ t.codeQuality = [score |-> 85, notes |-> <<NoteTests, NoteCI, NoteReadme>>]
        /\ "issues" \in DOMAIN t /\ t.issues = [open |-> 5, closed |-> 45]
        /\ "activity" \in DOMAIN t /\ "lastCommit" \in DOMAIN t.activity
        /\ t.activity.commits30d \in {0, 25}
        /\ "grantFit" \in DOMAIN t /\ t.grantFit = GrantFitFull
        /\ "languages" \in DOMAIN t /\ t.languages = LanguagesA }
CoreNicheIds == {"defi", "consumer", "unknown"}
InitCore ==
    /\ result \in CoreTelemetries \cup {Null}
    /\ now = Now0 /\ pc = "start" /\ signals = Unset
    /\ scores = Unset /\ card = Unset /\ riskFlags = Unset /\ nextActions = Unset
    /\ threw = FALSE
    /\ nicheId \in CoreNicheIds
    /\ catalog \in Catalogs
    /\ matched = <<"pending">>
    /\ strippedRun = <<"idle">>
    /\ NormIdle
    /\ AppIdle
NextCore ==
    \/ ExtractSignals /\ UNCHANGED <<matchVars, normVars, appVars>>
    \/ CalculateScores /\ UNCHANGED <<matchVars, normVars, appVars>>
    \/ GenerateOpportunityCard /\ UNCHANGED <<matchVars, normVars, appVars>>
    \/ MatchGrantsForNiche /\ UNCHANGED <<scoringVars, normVars, appVars>>
SpecCore == InitCore /\ [][NextCore]_vars

\* the paid analysis: AnalyzePage, fetchWith402 and the storage
InitPaywall == AppIdle /\ ScoringIdle /\ MatchIdle /\ NormIdle
NextPaywall ==
    \/ HandleAnalyze /\ UNCHANGED <<legacy, scoringVars, matchVars, normVars>>
    \/ FetchDirect /\ UNCHANGED <<legacy, scoringVars, matchVars, normVars>>
    \/ FirstResponse /\ UNCHANGED <<legacy, scoringVars, matchVars, normVars>>
    \/ HandlePaymentConfirm /\ UNCHANGED <<legacy, scoringVars, matchVars, normVars>>
    \/ PaymentAuthorizationSettled /\ UNCHANGED <<legacy, scoringVars, matchVars, normVars>>
    \/ PaymentPromiseSettled /\ UNCHANGED <<legacy, scoringVars, matchVars, normVars>>
    \/ RetryResponse /\ UNCHANGED <<legacy, scoringVars, matchVars, normVars>>
    \/ HandlePaywallClose /\ UNCHANGED <<legacy, scoringVars, matchVars, normVars>>
    \/ CloseTimer /\ UNCHANGED <<legacy, scoringVars, matchVars, normVars>>
    \/ WalletChange /\ UNCHANGED <<legacy, scoringVars, matchVars, normVars>>
    \/ ClearAllData /\ UNCHANGED <<legacy, scoringVars, matchVars, normVars>>
SpecPaywall == InitPaywall /\ [][NextPaywall]_vars

\* the same, where every pending fetch, wallet signature, promise continuation
\* and timer eventually settles; the user's clicks stay unforced
SpecPaywallFair ==
    /\ SpecPaywall
    /\ WF_vars(FirstResponse /\ UNCHANGED <<legacy, scoringVars, matchVars, normVars>>)
    /\ WF_vars(RetryResponse /\ UNCHANGED <<legacy, scoringVars, matchVars, normVars>>)
    /\ WF_vars(PaymentAuthorizationSettled /\ UNCHANGED <<legacy, scoringVars, matchVars, normVars>>)
    /\ WF_vars(PaymentPromiseSettled /\ UNCHANGED <<legacy, scoringVars, matchVars, normVars>>)
    /\ WF_vars(CloseTimer /\ UNCHANGED <<legacy, scoringVars, matchVars, normVars>>)

\* the analysis history in localStorage
InitHistory ==
    /\ HistoryInit
    /\ result = Null /\ pc = "idle" /\ signals = Unset
    /\ scores = Unset /\ card = Unset /\ riskFlags = Unset /\ nextActions = Unset
    /\ threw = FALSE
    /\ fx = FetchIdle /\ page = PageIdle /\ legacy = LegacyIdle
    /\ MatchIdle /\ NormIdle
NextHistory ==
    \/ AddToHistory
          /\ UNCHANGED <<result, pc, signals, scores, card, riskFlags, nextActions, threw,
                         fx, page, legacy, matchVars, normVars>>
    \/ ClearAllData /\ UNCHANGED <<legacy, scoringVars, matchVars, normVars>>
SpecHistory == InitHistory /\ [][NextHistory]_vars

\* the paid analysis on the page that sends its requests itself
InitLegacy == AppIdle /\ ScoringIdle /\ MatchIdle /\ NormIdle
NextLegacy ==
    \/ HandleContinue /\ UNCHANGED <<fx, page, scoringVars, matchVars, normVars>>
    \/ LegacyFirstResponse /\ UNCHANGED <<fx, page, scoringVars, matchVars, normVars>>
    \/ LegacyPaymentConfirm /\ UNCHANGED <<fx, page, scoringVars, matchVars, normVars>>
    \/ LegacySignatureSettled /\ UNCHANGED <<fx, page, scoringVars, matchVars, normVars>>
    \/ LegacyRetryResponse /\ UNCHANGED <<fx, page, scoringVars, matchVars, normVars>>
    \/ LegacySuccessTimer /\ UNCHANGED <<fx, page, scoringVars, matchVars, normVars>>
    \/ LegacyPaywallClose /\ UNCHANGED <<fx, page, scoringVars, matchVars, normVars>>
    \/ LegacyWalletChange /\ UNCHANGED <<fx, page, scoringVars, matchVars, normVars>>
    \/ ClearAllData /\ UNCHANGED <<legacy, scoringVars, matchVars, normVars>>
SpecLegacy == InitLegacy /\ [][NextLegacy]_vars

\* normalizeValue
InitNorm == NormInit /\ ScoringIdle /\ MatchIdle /\ AppIdle
NextNorm == NormalizeValue /\ UNCHANGED <<scoringVars, matchVars, appVars>>
SpecNorm == InitNorm /\ [][NextNorm]_vars

(***************************************************************************)
(* Properties of the scoring pipeline (checked under Spec)                 *)
(***************************************************************************)
IsNumber(r) == DOMAIN r = {"n", "d"} /\ r.n \in Int /\ r.d \in Nat /\ r.d > 0

SignalFields ==
    {"key", "category", "rawValue", "normalizedValue", "label", "description", "weight"}
SignalCategories ==
    {"activity", "community", "code_quality", "documentation", "deployment", "team"}

WellFormedSignal(sig) ==
    /\ DOMAIN sig = SignalFields
    /\ sig.category \in SignalCategories
    /\ IsNumber(sig.normalizedValue)
    /\ IsNumber(sig.weight)
    /\ \/ DOMAIN sig.rawValue = {"num"} /\ IsNumber(sig.rawValue.num)
       \/ DOMAIN sig.rawValue = {"bool"} /\ sig.rawValue.bool \in BOOLEAN

WellFormedSignals(sigs) == \A i \in 1..Len(sigs) : WellFormedSignal(sigs[i])

WellFormedBreakdown(b, type) ==
    /\ DOMAIN b = {"type", "score", "label", "description", "factors"}
    /\ b.type = type
    /\ b.score \in Int
    /\ \A i \in 1..Len(b.factors) :
          /\ DOMAIN b.factors[i] = {"name", "contribution", "explanation"}
          /\ b.factors[i].contribution \in Int

ScoreTypes == {"grantFit", "capitalReadiness", "ecosystemAlignment", "engagementEase"}

WellFormedScores(sc) ==
    /\ DOMAIN sc = ScoreTypes \cup {"overall", "calculatedAt"}
    /\ \A type \in ScoreTypes : WellFormedBreakdown(sc[type], type)
    /\ sc.overall \in Int

WellFormedFlags(flags) ==
    \A i \in 1..Len(flags) :
        /\ DOMAIN flags[i] = {"type", "message", "category"}
        /\ flags[i].type \in {"warning", "critical"}
        /\ flags[i].category \in SignalCategories

WellFormedActions(actions) ==
    \A i \in 1..Len(actions) :
        /\ DOMAIN actions[i] = {"id", "action", "priority", "impact", "completed"}
        /\ actions[i].priority \in {"high", "medium", "low"}
        /\ actions[i].completed \in BOOLEAN

WellFormedCard(c) ==
    /\ DOMAIN c = {"id", "projectId", "projectName", "projectUrl", "summary",
                   "strongestSignals", "riskFlags", "scores", "grantRecommendations",
                   "nextActions", "generatedAt"}
    /\ c.projectName # <<>>
    /\ Len(c.strongestSignals) <= 4
    /\ \A i \in 1..Len(c.strongestSignals) :
          c.strongestSignals[i].strength \in {"strong", "moderate", "weak"}
    /\ WellFormedFlags(c.riskFlags)
    /\ WellFormedScores(c.scores)
    /\ WellFormedActions(c.nextActions)
    /\ \A i \in 1..Len(c.grantRecommendations) :
          /\ DOMAIN c.grantRecommendations[i] =
                {"grantId", "programName", "ecosystem", "confidence", "whyFits", "applyUrl"}
          /\ c.grantRecommendations[i].programName # <<>>
          /\ c.grantRecommendations[i].confidence \in Int

\* C1: for null, undefined and every telemetry object with any of its optional
\* fields missing, extractSignals, calculateScores, detectRiskFlags,
\* generateNextActions and generateOpportunityCard never raise and each returns
\* a structurally valid, fully populated result
C1_Totality ==
    /\ ~threw
    /\ pc # "raised"
    /\ pc \in {"extracted", "scored", "done", "flagged", "actioned"} =>
          WellFormedSignals(signals) /\ (Falsy(result) <=> signals = <<>>)
    /\ pc \in {"scored", "done"} => WellFormedScores(scores)
    /\ pc = "flagged" => WellFormedFlags(riskFlags)
    /\ pc = "actioned" => WellFormedActions(nextActions)
    /\ pc = "done" => WellFormedCard(card)

\* the whole pipeline has run on the object with every optional field missing
C1_Witness ==
    /\ pc = "done"
    /\ DOMAIN result = {}
    /\ Len(signals) = 8
    /\ Len(card.strongestSignals) = 4

\* another telemetry with a nested object present but its sub-fields missing
C1_WitnessPartial ==
    /\ pc = "actioned"
    /\ "codeQuality" \in DOMAIN result
    /\ DOMAIN result.codeQuality = {"notes"}

\* C2: for null telemetry the pipeline does not raise and generateOpportunityCard
\* returns a card with scores.overall = 0 and empty riskFlags, nextActions and
\* grantRecommendations
C2_NullCard ==
    result = Null =>
        /\ ~threw
        /\ pc = "done" =>
              /\ card.scores.overall = 0
              /\ card.riskFlags = <<>>
              /\ card.nextActions = <<>>
              /\ card.grantRecommendations = <<>>

C2_Witness == result = Null /\ pc = "done" /\ card.scores.overall = 0

\* valid telemetry: non-negative counts, a quality score within 0..100, and a
\* last commit that is not later than the clock at calculation time t
ValidTelemetry(res, t) ==
    \/ Falsy(res)
    \/ LET activity == safeObject(Prop(res, "activity"), DefaultActivity)
           issues == safeObject(Prop(res, "issues"), DefaultIssues)
           codeQuality == safeObject(Prop(res, "codeQuality"), DefaultCodeQuality)
           lastCommit == safeString(Prop(activity, "lastCommit"), <<>>)
       IN  /\ safeNumber(Prop(res, "stars"), 0) >= 0
           /\ safeNumber(Prop(res, "forks"), 0) >= 0
           /\ safeNumber(Prop(issues, "open"), 0) >= 0
           /\ safeNumber(Prop(issues, "closed"), 0) >= 0
           /\ safeNumber(Prop(activity, "commits30d"), 0) >= 0
           /\ safeNumber(Prop(codeQuality, "score"), 0) \in 0..100
           /\ lastCommit = <<>> \/ lastCommit[1] <= t

\* C3: for valid telemetry each of the four sub-scores and the overall score
\* returned by calculateScores(extractSignals(t), t) is an integer in 0..100
C3_ScoreBounds ==
    (pc \in {"scored", "done"} /\ ValidTelemetry(result, scores.calculatedAt)) =>
        /\ \A type \in ScoreTypes : scores[type].score \in 0..100
        /\ scores.overall \in 0..100

\* valid telemetry that drives a sub-score to each end of the range
C3_Witness ==
    /\ pc = "scored"
    /\ ~Falsy(result)
    /\ ValidTelemetry(result, scores.calculatedAt)
    /\ scores.capitalReadiness.score = 100
    /\ \E type \in ScoreTypes : scores[type].score = 0

RECURSIVE SumContributions(_)
SumContributions(factors) ==
    IF factors = <<>> THEN 0
    ELSE Head(factors).contribution + SumContributions(Tail(factors))

FactorGap(b) == Abs(SumContributions(b.factors) - b.score)

\* C4: in each of the four breakdowns the sum of the factors' contributions
\* differs from the score by at most one point per factor
C4_FactorSum ==
    pc \in {"scored", "done"} =>
        \A type \in ScoreTypes : FactorGap(scores[type]) <= Len(scores[type].factors)

\* a breakdown whose rounded factors do not add up to the rounded total
C4_Witness ==
    /\ pc = "scored"
    /\ ~Falsy(result)
    /\ \E type \in ScoreTypes : FactorGap(scores[type]) >= 1

(***************************************************************************)
(* Properties of normalizeValue (checked under SpecNorm)                   *)
(***************************************************************************)
\* C5: normalizeValue is monotonically non-decreasing in its value, returns
\* exactly 1 at or above the highest defined threshold, and returns 0 for
\* values at or below 0
C5_NormalizeValue ==
    nv.called =>
        /\ nv.a <= nv.b => RLeq(nv.outA, nv.outB)
        /\ nv.a >= TopBound(SIGNAL_THRESHOLDS[nv.key]) => nv.outA = R1
        /\ nv.a <= 0 => nv.outA = R0

\* the parts of C5 that the code satisfies: monotone, and 1 at or above the top
C5_MonotoneAndTop ==
    nv.called =>
        /\ nv.a <= nv.b => RLeq(nv.outA, nv.outB)
        /\ nv.a >= TopBound(SIGNAL_THRESHOLDS[nv.key]) => nv.outA = R1

\* normalizeValue applied to a value below zero returns a value below zero
C5_NegativeOutput ==
    nv.called /\ nv.a < 0 /\ RLt(nv.outA, R0)

(***************************************************************************)
(* The worked example of the scoring pipeline (checked under Spec)         *)
(***************************************************************************)
IsExample(res) ==
    /\ ~Falsy(res)
    /\ {"stars", "forks", "issues", "codeQuality", "languages", "activity"}
          \subseteq DOMAIN res
    /\ res.stars = 1000
    /\ res.forks = 50
    /\ res.issues = [open |-> 5, closed |-> 45]
    /\ res.codeQuality = [score |-> 85, notes |-> <<NoteTests, NoteCI, NoteReadme>>]
    /\ res.languages = LanguagesA
    /\ res.activity = [lastCommit |-> DaysAgo(20, 5), commits30d |-> 25]

SignalValue(sigs, key) == SignalsByKey(sigs, key)[1].normalizedValue

ExampleFacts ==
    /\ SignalValue(signals, "hasContracts") = R1
    /\ RLeq(Rat(3, 4), SignalValue(signals, "stars"))
    /\ RLeq(SignalValue(signals, "stars"), R1)
    /\ \A i \in 1..Len(card.riskFlags) : card.riskFlags[i].type # "critical"

\* C9 as stated: for the example telemetry (1000 stars, 50 forks, 5 open and 45
\* closed issues, quality 85 with notes on tests, CI and README, Solidity and
\* TypeScript, last commit 20 days ago, 25 commits) hasContracts is 1, stars
\* normalizes into [0.75, 1], capitalReadiness is at least 80 and there is no
\* critical risk flag
C9_ExampleAsStated ==
    (pc = "done" /\ IsExample(result)) =>
        ExampleFacts /\ scores.capitalReadiness.score >= 80

\* C9 amended: same telemetry; hasContracts is 1, stars normalizes into
\* [0.75, 1], there is no critical risk flag, and capitalReadiness is 73
C9_ExampleAmended ==
    (pc = "done" /\ IsExample(result)) =>
        ExampleFacts /\ scores.capitalReadiness.score = 73

C9_Witness ==
    /\ pc = "done"
    /\ IsExample(result)
    /\ Len(signals) = 8
    /\ card.scores.capitalReadiness.score < 80

\* C10: generateNextActions returns at most 5 actions, also as the nextActions
\* of the card
C10_AtMostFive ==
    /\ pc = "actioned" => Len(nextActions) <= 5
    /\ pc = "done" => Len(card.nextActions) <= 5

\* a call in which every rule fires and five actions are returned
C10_Witness ==
    /\ pc = "actioned"
    /\ Len(nextActions) = 5
    /\ nextActions[5].id = <<"action-", 5>>

(***************************************************************************)
(* Properties of the grant matcher (checked under SpecMatch)               *)
(***************************************************************************)
Elements(seq) == { seq[i] : i \in 1..Len(seq) }

\* s occurs in t as a contiguous run of characters, compared case-insensitively
IsSubstring(s, t) ==
    \E k \in 0..Len(t) :
        /\ k + Len(s) <= Len(t)
        /\ \A i \in 1..Len(s) : toLowerCaseCh(s[i]) = toLowerCaseCh(t[k + i])

Overlap(s, t) == IsSubstring(s, t) \/ IsSubstring(t, s)

\* (a) some niche tag overlaps a grant tag or the grant's category
TagOrCategoryOverlap(niche, grant) ==
    \E nt \in Elements(niche.tags) :
        \E gt \in Elements(grant.tags) \cup {grant.category} : Overlap(nt, gt)

CategoryOverlap(niche, grant) ==
    \E nt \in Elements(niche.tags) : Overlap(nt, grant.category)

AliasSet(chain) ==
    LET c == toLowerCase(chain)
    IN  IF \E e \in Elements(CHAIN_ECOSYSTEM_MAP) : e.chain = c
        THEN UNION { Elements(e.ecosystems) : e \in { x \in Elements(CHAIN_ECOSYSTEM_MAP) : x.chain = c } }
        ELSE {c}

\* (b) the ecosystem is multi-chain or an alias of a recommended chain
EcosystemAccepted(niche, grant) ==
    \/ toLowerCase(grant.ecosystem) = MultiChain
    \/ \E chain \in Elements(niche.recommendedChains) :
          toLowerCase(grant.ecosystem) \in AliasSet(chain)

TheNiche == CHOOSE n \in Elements(NICHES) : n.id = nicheId
KnownNiche == \E n \in Elements(NICHES) : n.id = nicheId

\* C6: matchGrantsForNiche returns exactly the catalog grants that satisfy both
\* (a) tag-or-category overlap with a niche tag and (b) an accepted ecosystem;
\* no grant failing either condition is returned
C6_ExactlyTheMatches ==
    matched[1] = "returned" =>
        /\ Len(matched[2]) = Cardinality(Elements(matched[2]))
        /\ Elements(matched[2]) =
              IF KnownNiche
              THEN { g \in Elements(catalog) :
                        TagOrCategoryOverlap(TheNiche, g) /\ EcosystemAccepted(TheNiche, g) }
              ELSE {}

\* one grant is returned; the other overlaps a niche tag but is left out for
\* its ecosystem
C6_Witness ==
    /\ matched[1] = "returned"
    /\ KnownNiche
    /\ Len(matched[2]) = 1
    /\ \E g \in Elements(catalog) :
          /\ TagOrCategoryOverlap(TheNiche, g)
          /\ ~EcosystemAccepted(TheNiche, g)

\* a grant returned only for its category, and one left out for its tags
C6_WitnessCategory ==
    /\ matched[1] = "returned"
    /\ KnownNiche
    /\ \E g \in Elements(matched[2]) :
          ~ \E nt \in Elements(TheNiche.tags) : \E gt \in Elements(g.tags) : Overlap(nt, gt)
    /\ \E g \in Elements(catalog) :
          ~TagOrCategoryOverlap(TheNiche, g) /\ EcosystemAccepted(TheNiche, g)

\* C7 as stated: once every grant tag that overlaps a niche tag is removed, the
\* grant no longer appears in the result for that niche
C7_StrippedNeverReturned ==
    strippedRun[1] = "returned" => Len(strippedRun[2]) = 0

\* C7 amended: once every grant tag that overlaps a niche tag is removed, the
\* grant no longer appears in the result for that niche unless its category
\* overlaps a niche tag
C7_StrippedOnlyByCategory ==
    (strippedRun[1] = "returned" /\ KnownNiche) =>
        \A i \in 1..Len(catalog) :
            StripOverlappingTags(TheNiche, catalog[i]) \in Elements(strippedRun[2])
                => CategoryOverlap(TheNiche, catalog[i])

\* a grant that is returned, loses a tag, and is no longer returned
C7_Witness ==
    /\ matched[1] = "returned"
    /\ strippedRun[1] = "returned"
    /\ KnownNiche
    /\ \E g \in Elements(matched[2]) :
          /\ Len(StripOverlappingTags(TheNiche, g).tags) < Len(g.tags)
          /\ StripOverlappingTags(TheNiche, g) \notin Elements(strippedRun[2])

\* a grant that stays in the result after losing its overlapping tags
C7_WitnessKept ==
    /\ strippedRun[1] = "returned"
    /\ KnownNiche
    /\ \E g \in Elements(catalog) :
          /\ Len(StripOverlappingTags(TheNiche, g).tags) < Len(g.tags)
          /\ StripOverlappingTags(TheNiche, g) \in Elements(strippedRun[2])

PositionIn(seq, x) == CHOOSE i \in 1..Len(seq) : seq[i] = x

\* C8: the returned list is ordered by non-increasing scoreGrantMatch, and
\* returned grants of equal score keep their relative catalog order
C8_SortedStable ==
    (matched[1] = "returned" /\ KnownNiche) =>
        \A i, j \in 1..Len(matched[2]) :
            i < j =>
                LET si == scoreGrantMatch(TheNiche, matched[2][i])
                    sj == scoreGrantMatch(TheNiche, matched[2][j])
                IN  \/ si > sj
                    \/ /\ si = sj
                       /\ PositionIn(catalog, matched[2][i]) < PositionIn(catalog, matched[2][j])

\* two returned grants of equal score
C8_Witness ==
    /\ matched[1] = "returned"
    /\ KnownNiche
    /\ Len(matched[2]) = 2
    /\ scoreGrantMatch(TheNiche, matched[2][1]) = scoreGrantMatch(TheNiche, matched[2][2])

\* two returned grants whose catalog order the sort reversed
C8_WitnessReordered ==
    /\ matched[1] = "returned"
    /\ KnownNiche
    /\ Len(matched[2]) = 2
    /\ PositionIn(catalog, matched[2][1]) > PositionIn(catalog, matched[2][2])

(***************************************************************************)
(* Dependence of the scoring pipeline on the clock (checked under Spec)    *)
(***************************************************************************)
\* the moments the clock has shown so far in this run
Moments == Now0..now

\* what calculateScores returns apart from its timestamp: the four breakdowns
\* (scores, factor contributions) and the overall score
ScoresOf(sc) == [type \in ScoreTypes |-> sc[type]] @@ [overall |-> sc.overall]

\* C11: two invocations of extractSignals / calculateScores / detectRiskFlags
\* with the same telemetry (and signals), made at any two moments, return the
\* same signals, sub-scores, factor contributions, overall score and risk flags
C11_PureOfArguments ==
    \A t \in Moments :
        /\ pc \in {"extracted", "scored", "done", "flagged", "actioned"} =>
              signals = extractSignals(result, t).value
        /\ pc \in {"scored", "done"} =>
              ScoresOf(scores) = ScoresOf(calculateScores(signals, result, t).value)
        /\ pc = "flagged" => riskFlags = detectRiskFlags(signals, result, t).value

HasLastCommit(res) ==
    /\ ~Falsy(res)
    /\ "activity" \in DOMAIN res
    /\ "lastCommit" \in DOMAIN res.activity
    /\ res.activity.lastCommit # <<>>

\* the same, for telemetry that carries no last-commit timestamp
C11_PureWithoutTimestamp ==
    ~HasLastCommit(result) => C11_PureOfArguments

\* two extractions of one telemetry, an hour apart, that differ
C11_ClockDependence ==
    /\ pc = "extracted"
    /\ HasLastCommit(result)
    /\ now > Now0
    /\ extractSignals(result, Now0).value # extractSignals(result, now).value

InUnitInterval(r) == RLeq(R0, r) /\ RLeq(r, R1)

\* C12: every signal produced by extractSignals has normalizedValue within
\* [0, 1], for any present telemetry (negative or over-range numbers, a quality
\* score above 100, a last commit in the future included)
C12_NormalizedInUnitInterval ==
    pc \in {"extracted", "scored", "done", "flagged", "actioned"} =>
        \A i \in 1..Len(signals) : InUnitInterval(signals[i].normalizedValue)

\* the same for valid telemetry only
C12_ValidTelemetryInUnitInterval ==
    (pc = "extracted" /\ \E t \in Moments : ValidTelemetry(result, t) /\ signals = extractSignals(result, t).value) =>
        \A i \in 1..Len(signals) : InUnitInterval(signals[i].normalizedValue)

SignalKeys ==
    <<"commits30d", "lastCommitRecency", "stars", "forks", "issueActivity",
      "codeQuality", "hasTests", "hasContracts">>

\* C13: for present telemetry extractSignals returns exactly eight signals, one
\* per key commits30d, lastCommitRecency, stars, forks, issueActivity,
\* codeQuality, hasTests, hasContracts, without duplicates or other keys; for
\* absent telemetry it returns the empty list
C13_EightSignals ==
    pc \in {"extracted", "scored", "done", "flagged", "actioned"} =>
        IF Falsy(result)
        THEN signals = <<>>
        ELSE /\ Len(signals) = 8
             /\ { signals[i].key : i \in 1..Len(signals) } = Elements(SignalKeys)
             /\ \A i, j \in 1..Len(signals) : signals[i].key = signals[j].key => i = j

\* eight signals extracted from the object with every field missing
C13_Witness ==
    /\ pc = "extracted"
    /\ DOMAIN result = {}
    /\ Len(signals) = 8
    /\ signals[8].key = "hasContracts"

\* no signal extracted from absent telemetry
C13_WitnessAbsent ==
    /\ pc = "extracted"
    /\ result = Undefined
    /\ signals = <<>>

(***************************************************************************)
(* The tiers of normalizeValue (checked under SpecNorm)                    *)
(***************************************************************************)
\* the four-tier map with top = TopBound(th), written tier by tier
TierMap(v, th) ==
    LET top == TopBound(th)
        Within(lo, hi, base) == RAdd(base, RMul(Rat(v - lo, hi - lo), Rat(1, 4)))
    IN  IF v <= th.low THEN Within(0, th.low, R0)
        ELSE IF v <= th.medium THEN Within(th.low, th.medium, Rat(1, 4))
        ELSE IF v <= th.high THEN Within(th.medium, th.high, Rat(1, 2))
        ELSE IF v < top THEN Within(th.high, top, Rat(3, 4))
        ELSE R1

\* the interval the tier of v maps into
TierRange(v, th) ==
    IF v <= th.low THEN <<R0, Rat(1, 4)>>
    ELSE IF v <= th.medium THEN <<Rat(1, 4), Rat(1, 2)>>
    ELSE IF v <= th.high THEN <<Rat(1, 2), Rat(3, 4)>>
    ELSE <<Rat(3, 4), R1>>

FollowsTiers(v, out, th) ==
    /\ out = TierMap(v, th)
    /\ RLeq(TierRange(v, th)[1], out)
    /\ RLeq(out, TierRange(v, th)[2])

\* C14: normalizeValue is the four-tier piecewise-linear map: value <= low
\* into [0, 0.25], low..medium into [0.25, 0.5], medium..high into [0.5, 0.75],
\* high..top into [0.75, 1] with top the exceptional tier or high*2 when none
\* is configured, exactly 1 at or above top, and no jump between tiers
C14_PiecewiseLinear ==
    nv.called =>
        /\ FollowsTiers(nv.a, nv.outA, SIGNAL_THRESHOLDS[nv.key])
        /\ FollowsTiers(nv.b, nv.outB, SIGNAL_THRESHOLDS[nv.key])

\* the same for non-negative values under a tier set with an exceptional tier
C14_WithExceptionalTier ==
    (nv.called /\ nv.a >= 0 /\ SIGNAL_THRESHOLDS[nv.key].exceptional # <<>>) =>
        FollowsTiers(nv.a, nv.outA, SIGNAL_THRESHOLDS[nv.key])

\* the same for non-negative values of the first three tiers under any tier set
C14_LowerTiers ==
    (nv.called /\ nv.a >= 0 /\ nv.a <= SIGNAL_THRESHOLDS[nv.key].high) =>
        FollowsTiers(nv.a, nv.outA, SIGNAL_THRESHOLDS[nv.key])

\* without an exceptional tier, a value just above high already maps to 1
C14_JumpAboveHigh ==
    /\ nv.called
    /\ SIGNAL_THRESHOLDS[nv.key].exceptional = <<>>
    /\ nv.a = SIGNAL_THRESHOLDS[nv.key].high
    /\ nv.b = nv.a + 1
    /\ nv.outA = Rat(3, 4)
    /\ nv.outB = R1

(***************************************************************************)
(* The score formulas, recomputed from the raw telemetry (under Spec)      *)
(***************************************************************************)
\* a field of the telemetry, with a missing field read as the default
FieldOr(obj, field, default) == IF field \in DOMAIN obj THEN obj[field] ELSE default

RawNotes(res) == FieldOr(FieldOr(res, "codeQuality", EmptyObj), "notes", <<>>)
RawQuality(res) == FieldOr(FieldOr(res, "codeQuality", EmptyObj), "score", 0)
RawCommits(res) == FieldOr(FieldOr(res, "activity", EmptyObj), "commits30d", 0)
RawLastCommit(res) == FieldOr(FieldOr(res, "activity", EmptyObj), "lastCommit", <<>>)
RawOpen(res) == FieldOr(FieldOr(res, "issues", EmptyObj), "open", 0)
RawClosed(res) == FieldOr(FieldOr(res, "issues", EmptyObj), "closed", 0)
RawStars(res) == FieldOr(res, "stars", 0)

\* closed / max(1, open + closed)
RawIssueRatio(res) ==
    LET total == RawOpen(res) + RawClosed(res)
    IN  Rat(RawClosed(res), IF total >= 1 THEN total ELSE 1)

\* whole days between the last commit and moment t; 999 without a timestamp
RawDaysSince(res, t) ==
    IF RawLastCommit(res) = <<>> THEN 999
    ELSE RFloor(Rat(t - RawLastCommit(res)[1], HoursPerDay))

WeightedOverall(sc) ==
    RRound(RAdd(RAdd(RAdd(Rat(35 * sc.grantFit.score, 100),
                          Rat(25 * sc.capitalReadiness.score, 100)),
                     Rat(25 * sc.ecosystemAlignment.score, 100)),
                Rat(15 * sc.engagementEase.score, 100)))

\* C15: overall = round(0.35*grantFit + 0.25*capitalReadiness +
\* 0.25*ecosystemAlignment + 0.15*engagementEase), hence within 0..100
\* whenever each of the four sub-scores is
C15_OverallFormula ==
    pc \in {"scored", "done"} =>
        /\ scores.overall = WeightedOverall(scores)
        /\ (\A type \in ScoreTypes : scores[type].score \in 0..100)
              => scores.overall \in 0..100

\* four different sub-scores whose weighted sum is rounded
C15_Witness ==
    /\ pc = "scored"
    /\ ~Falsy(result)
    /\ Cardinality({ scores[type].score : type \in ScoreTypes }) = 4
    /\ scores.overall > 0
    /\ (35 * scores.grantFit.score + 25 * scores.capitalReadiness.score
          + 25 * scores.ecosystemAlignment.score
          + 15 * scores.engagementEase.score) % 100 # 0

CapitalReadinessOf(res) ==
    RRound(RAdd(RAdd(RAdd(
        Int2R(IntMin(35, 7 * Len(RawNotes(res)))),
        Rat(30 * RawQuality(res), 100)),
        RMin(Int2R(20), Rat(RawCommits(res), 2))),
        RMul(Int2R(15), RawIssueRatio(res))))

\* C16: capitalReadiness.score = round(min(35, 7*#notes) + 30*(quality/100)
\* + min(20, 0.5*commits30d) + 15*(closed / max(1, open + closed))) for every
\* present telemetry, missing fields read as 0 / empty
C16_CapitalReadinessFormula ==
    (pc \in {"scored", "done"} /\ ~Falsy(result)) =>
        scores.capitalReadiness.score = CapitalReadinessOf(result)

\* both caps bind and the issue term is a fraction
C16_Witness ==
    /\ pc = "scored"
    /\ ~Falsy(result)
    /\ 7 * Len(RawNotes(result)) > 35
    /\ RawCommits(result) > 40
    /\ RawOpen(result) > 0
    /\ RawClosed(result) > 0
    /\ scores.capitalReadiness.score = CapitalReadinessOf(result)

\* a telemetry without codeQuality, activity and issues scores 0
C16_WitnessMissing ==
    /\ pc = "scored"
    /\ DOMAIN result = {}
    /\ scores.capitalReadiness.score = 0

EngagementEaseOf(res, t) ==
    RRound(RAdd(RAdd(
        RMax(R0, RSub(Int2R(40), Rat(RawDaysSince(res, t), 2))),
        RMul(Int2R(30), RawIssueRatio(res))),
        Int2R(IntMin(30, 6 * Len(RawNotes(res))))))

\* C17: engagementEase.score = round(max(0, 40 - 0.5*daysSinceLastCommit)
\* + 30*(closed / max(1, open + closed)) + min(30, 6*#notes)), a missing
\* last-commit timestamp counting as 999 days (recency contribution 0)
C17_EngagementEaseFormula ==
    (pc \in {"scored", "done"} /\ ~Falsy(result)) =>
        /\ scores.engagementEase.score = EngagementEaseOf(result, scores.calculatedAt)
        /\ RawLastCommit(result) = <<>> =>
              scores.engagementEase.factors[1].contribution = 0

\* no timestamp: the recency factor contributes nothing, the others do
C17_Witness ==
    /\ pc = "scored"
    /\ ~Falsy(result)
    /\ RawLastCommit(result) = <<>>
    /\ scores.engagementEase.factors[1].contribution = 0
    /\ scores.engagementEase.score > 30

\* a recent commit: the recency factor contributes 40 - days/2
C17_WitnessRecent ==
    /\ pc = "scored"
    /\ RawLastCommit(result) # <<>>
    /\ RawDaysSince(result, scores.calculatedAt) = 20
    /\ scores.engagementEase.factors[1].contribution = 30

(***************************************************************************)
(* Risk flags and next actions at the thresholds (under SpecBoundary)      *)
(***************************************************************************)
HasTestsSignal(sigs) ==
    \E i \in 1..Len(sigs) : sigs[i].key = "hasTests" /\ sigs[i].normalizedValue = R1

If(cond, seq) == IF cond THEN seq ELSE <<>>

\* the flags the thresholds call for at moment t, as <<type, category>>; the
\* days since the last commit are counted when the telemetry has a timestamp
BreachedThresholds(sigs, res, t) ==
    LET timed == RawLastCommit(res) # <<>>
        days == RawDaysSince(res, t)
        total == RawOpen(res) + RawClosed(res)
    IN  If(timed /\ days > 180, << <<"critical", "activity">> >>)
        \o If(timed /\ days > 60 /\ ~(days > 180), << <<"warning", "activity">> >>)
        \o If(RawStars(res) < 5, << <<"warning", "community">> >>)
        \o If(~HasTestsSignal(sigs), << <<"warning", "code_quality">> >>)
        \o If(total > 10 /\ 10 * RawOpen(res) > 8 * total, << <<"warning", "community">> >>)

KindsOf(flags) == [i \in 1..Len(flags) |-> <<flags[i].type, flags[i].category>>]

C18_WitnessAtThresholds ==
    /\ pc = "flagged"
    /\ RawLastCommit(result) # <<>>
    /\ RawDaysSince(result, now) = 60
    /\ RawStars(result) = 5
    /\ RawOpen(result) = 40
    /\ riskFlags = <<>>

\* exactly 180 days: the warning, not the critical flag
C18_WitnessWarningAt180 ==
    /\ pc = "flagged"
    /\ RawLastCommit(result) # <<>>
    /\ RawDaysSince(result, now) = 180
    /\ KindsOf(riskFlags) = << <<"warning", "activity">> >>

RawMatches(res) == FieldOr(FieldOr(res, "grantFit", EmptyObj), "matches", <<>>)

\* the texts of the rules that trigger, in rule order
TriggeredActions(sigs, res, flags) ==
    If(\E i \in 1..Len(flags) : flags[i].category = "activity",
       << <<"Increase commit frequency to show active development">> >>)
    \o If(~HasTestsSignal(sigs), << <<"Add unit tests and integration tests">> >>)
    \o If(RawStars(res) < 50, << <<"Promote project to increase GitHub stars">> >>)
    \o If(Len(RawNotes(res)) < 3,
          << <<"Improve README with installation, usage examples, and API docs">> >>)
    \o If(Len(RawMatches(res)) > 0,
          << <<"Apply to top matching grant: ",
               IF "program" \in DOMAIN RawMatches(res)[1]
               THEN <<RawMatches(res)[1].program>> ELSE <<>> >> >>)

\* actions is the list of the triggered rules' actions, numbered without gaps
IsRuleOutput(actions, sigs, res, flags) ==
    /\ [i \in 1..Len(actions) |-> actions[i].action] = TriggeredActions(sigs, res, flags)
    /\ \A i \in 1..Len(actions) :
          actions[i].id = <<"action-", i>> /\ actions[i].completed = FALSE

\* C19: generateNextActions evaluates its five rules in the fixed order
\* (activity flag -> increase commit frequency; hasTests not 1 -> add tests;
\* stars < 50 -> promote; fewer than 3 notes -> improve README; a supplied
\* match -> apply to matches[0].program); the output is the order-preserving
\* list of the triggered rules' actions, each with completed = false and ids
\* action-1..action-n without gaps
C19_RulesInOrder ==
    /\ (pc = "actioned" /\ ~Falsy(result)) =>
          \E flags \in FlagLists : IsRuleOutput(nextActions, signals, result, flags)
    /\ (pc = "done" /\ ~Falsy(result)) =>
          IsRuleOutput(card.nextActions, signals, result, card.riskFlags)
    /\ (pc \in {"actioned", "done"} /\ Falsy(result)) =>
          (pc = "actioned" => nextActions = <<>>) /\ (pc = "done" => card.nextActions = <<>>)

\* the second and the fourth rule are skipped: three actions numbered 1..3
C19_Witness ==
    /\ pc = "done"
    /\ ~Falsy(result)
    /\ [i \in 1..Len(card.nextActions) |-> card.nextActions[i].action[1]] =
          <<"Increase commit frequency to show active development",
            "Promote project to increase GitHub stars",
            "Apply to top matching grant: ">>
    /\ card.nextActions[3].id = <<"action-", 3>>
    /\ card.nextActions[3].action[2] = <<ProgramA>>

\* 50 stars and 3 notes: neither the third nor the fourth rule triggers
C19_WitnessAtThresholds ==
    /\ pc = "actioned"
    /\ RawStars(result) = 50
    /\ Len(RawNotes(result)) = 3
    /\ nextActions = <<>>

(***************************************************************************)
(* The summary of the card (under SpecBoundary)                            *)
(***************************************************************************)
\* C20 as stated: the summary says 'highly active' when commits30d >= 20,
\* 'moderately active' when 5 <= commits30d < 20 and 'low activity' otherwise
C20_AdjectiveAsStated ==
    (pc = "done" /\ ~Falsy(result)) =>
        card.summary.activityLevel =
            IF RawCommits(result) >= 20 THEN "highly active"
            ELSE IF RawCommits(result) >= 5 THEN "moderately active"
            ELSE "low activity"

\* C20 amended: the summary says 'highly active' when commits30d > 20,
\* 'moderately active' when 5 < commits30d <= 20 and 'low activity' otherwise
\* (20 commits give 'moderately active', 5 commits 'low activity')
C20_AdjectiveStrict ==
    (pc = "done" /\ ~Falsy(result)) =>
        /\ card.summary.activityLevel =
              IF RawCommits(result) > 20 THEN "highly active"
              ELSE IF RawCommits(result) > 5 THEN "moderately active"
              ELSE "low activity"
        /\ RawCommits(result) = 20 => card.summary.activityLevel = "moderately active"
        /\ RawCommits(result) = 5 => card.summary.activityLevel = "low activity"

\* a card for a repository with exactly 20 commits in 30 days
C20_Witness ==
    /\ pc = "done"
    /\ ~Falsy(result)
    /\ RawCommits(result) = 20
    /\ card.summary.activityLevel = "moderately active"

\* cards for 5, 6 and 21 commits
C20_WitnessFive ==
    pc = "done" /\ RawCommits(result) = 5 /\ card.summary.activityLevel = "low activity"
C20_WitnessSix ==
    pc = "done" /\ RawCommits(result) = 6 /\ card.summary.activityLevel = "moderately active"
C20_WitnessTwentyOne ==
    pc = "done" /\ RawCommits(result) = 21 /\ card.summary.activityLevel = "highly active"

\* the signal a strongest-signals entry was made from (labels are unique)
SignalLabelled(sigs, label) == CHOOSE sig \in Elements(sigs) : sig.label = label

ExpectedStrength(v) ==
    IF RLt(Rat(7, 10), v) THEN "strong"
    ELSE IF RLt(Rat(4, 10), v) /\ RLeq(v, Rat(7, 10)) THEN "moderate"
    ELSE "weak"

\* C21: strongestSignals has min(4, number of signals) entries; they are the
\* signals with the highest normalizedValue, in non-increasing order of it;
\* each is tagged 'strong' iff normalizedValue > 0.7, 'moderate' iff
\* 0.4 < normalizedValue <= 0.7 and 'weak' otherwise
C21_StrongestSignals ==
    pc = "done" =>
        LET top == card.strongestSignals
            chosen == { top[i].label : i \in 1..Len(top) }
            Value(i) == SignalLabelled(signals, top[i].label).normalizedValue
        IN  /\ Len(top) = IntMin(4, Len(signals))
            /\ Cardinality(chosen) = Len(top)
            /\ chosen \subseteq { sig.label : sig \in Elements(signals) }
            /\ \A i, j \in 1..Len(top) : i < j => RLeq(Value(j), Value(i))
            /\ \A i \in 1..Len(top) :
                  \A sig \in Elements(signals) :
                      sig.label \notin chosen => RLeq(sig.normalizedValue, Value(i))
            /\ \A i \in 1..Len(top) : top[i].strength = ExpectedStrength(Value(i))

\* a card listing a signal of exactly 0.7 as moderate, after a strong one
C21_Witness ==
    /\ pc = "done"
    /\ Len(card.strongestSignals) = 4
    /\ card.strongestSignals[1].strength = "strong"
    /\ \E i \in 2..4 :
          /\ SignalLabelled(signals, card.strongestSignals[i].label).normalizedValue
                = Rat(7, 10)
          /\ card.strongestSignals[i].strength = "moderate"

\* a card listing a signal of exactly 0.4 as weak
C21_WitnessWeak ==
    /\ pc = "done"
    /\ \E i \in 1..Len(card.strongestSignals) :
          /\ SignalLabelled(signals, card.strongestSignals[i].label).normalizedValue
                = Rat(4, 10)
          /\ card.strongestSignals[i].strength = "weak"

\* the card for absent telemetry lists none
C21_WitnessNone ==
    pc = "done" /\ result = Null /\ card.strongestSignals = <<>>

\* the recommendation carries the match's field, or the default when the
\* match lacks it
Carries(value, match, field, default) ==
    value = (IF field \in DOMAIN match THEN match[field] ELSE default)

\* C22: grantRecommendations is derived one-to-one, in order, from the
\* telemetry's supplied matches: same length, the i-th recommendation carries
\* the i-th match's program, ecosystem, fitScore (as confidence) and why
\* list; it is empty when no matches are supplied
C22_RecommendationsFromMatches ==
    (pc = "done" /\ result # Null) =>
        LET matches == RawMatches(result)
            recs == card.grantRecommendations
        IN  /\ Len(recs) = Len(matches)
            /\ \A i \in 1..Len(matches) :
                  /\ Carries(recs[i].programName, matches[i], "program", UnknownProgram)
                  /\ Carries(recs[i].ecosystem, matches[i], "ecosystem", UnknownWord)
                  /\ Carries(recs[i].confidence, matches[i], "fitScore", 0)
                  /\ Carries(recs[i].whyFits, matches[i], "why", <<>>)

\* two supplied matches, the first with every field, give two recommendations
C22_Witness ==
    /\ pc = "done"
    /\ result # Null
    /\ RawMatches(result) = <<MatchA, MatchB>>
    /\ Len(card.grantRecommendations) = 2
    /\ card.grantRecommendations[1].programName = ProgramA
    /\ card.grantRecommendations[1].confidence = 90
    /\ card.grantRecommendations[2].confidence = 40

\* telemetry without matches gives no recommendation
C22_WitnessEmpty ==
    /\ pc = "done"
    /\ result # Null
    /\ RawMatches(result) = <<>>
    /\ card.grantRecommendations = <<>>

\* the (niche tag, grant tag) pairs that overlap, by position
OverlappingPairs(niche, grant) ==
    { p \in (1..Len(niche.tags)) \X (1..Len(grant.tags)) :
        Overlap(niche.tags[p[1]], grant.tags[p[2]]) }

\* the niche tags that overlap at least one grant tag, by position
OverlappingNicheTags(niche, grant) ==
    { n \in 1..Len(niche.tags) :
        \E gt \in Elements(grant.tags) : Overlap(niche.tags[n], gt) }

CategoryPoints(niche, grant) ==
    IF \E nt \in Elements(niche.tags) : IsSubstring(grant.category, nt) THEN 2 ELSE 0

ChainPoints(niche, grant) ==
    IF \E chain \in Elements(niche.recommendedChains) :
          toLowerCase(grant.ecosystem) \in AliasSet(chain)
    THEN 1 ELSE 0

ExampleNiche ==
    [id |-> "example",
     tags |-> <<<<"D","e","F","i">>, <<"L","e","n","d","i","n","g">>>>,
     recommendedChains |-> <<<<"e","t","h","e","r","e","u","m">>>>]

ExampleGrant ==
    [id |-> "example", category |-> <<"d","e","f","i">>,
     ecosystem |-> <<"e","t","h","e","r","e","u","m">>,
     tags |-> <<<<"D","E","X">>, <<"D","e","F","i">>>>]

ExampleMatchedWithFive ==
    /\ matchesNiche(hasTagMatch(MapLower(ExampleNiche.tags), ExampleGrant),
                    hasChainMatch(ExampleNiche, ExampleGrant))
    /\ scoreGrantMatch(ExampleNiche, ExampleGrant) >= 5

C23_WitnessFive ==
    /\ matched[1] = "returned"
    /\ KnownNiche
    /\ \E g \in Elements(matched[2]) :
          /\ scoreGrantMatch(TheNiche, g) = 5
          /\ ChainPoints(TheNiche, g) = 1
          /\ Cardinality({ c \in 1..Len(TheNiche.recommendedChains) :
                 toLowerCase(g.ecosystem) \in AliasSet(TheNiche.recommendedChains[c]) }) > 1

\* C24: the core never mutates its inputs: when matchGrantsForNiche returns,
\* the catalog passed in has the same elements in the same order, and when
\* generateOpportunityCard returns, so has the signals list passed in
C24_InputsNotMutated ==
    [][ /\ (matched[1] = "pending" /\ matched'[1] = "returned") => catalog' = catalog
        /\ (pc = "scored" /\ pc' = "done") => signals' = signals ]_vars

\* both calls have returned, each after reordering: the returned grants are
\* not a prefix of the catalog, and the strongest signal is not the first signal
C24_Witness ==
    /\ matched[1] = "returned"
    /\ Len(matched[2]) = 2
    /\ matched[2] = <<catalog[2], catalog[1]>>
    /\ pc = "done"
    /\ Len(signals) = 8
    /\ card.strongestSignals[1].label # signals[1].label

\* the days since the last commit as the lastCommitRecency signal reports them
ReportedDaysSince(sigs) == SignalsByKey(sigs, "lastCommitRecency")[1].rawValue.num

HasCriticalActivityFlag(flags) ==
    \E i \in 1..Len(flags) : flags[i].type = "critical" /\ flags[i].category = "activity"

HasCommitFrequencyAction(actions) ==
    \E i \in 1..Len(actions) :
        actions[i].action[1] = "Increase commit frequency to show active development"

\* C25: for present telemetry, whenever the lastCommitRecency signal reports
\* more than 180 days since the last commit, detectRiskFlags emits a critical
\* activity flag and the 'increase commit frequency' action follows - also
\* when the timestamp is missing and the signal reports 999 days
C25_InactivityAgreement ==
    /\ (pc = "flagged" /\ ~Falsy(result)) =>
          (RLt(Int2R(180), ReportedDaysSince(signals)) => HasCriticalActivityFlag(riskFlags))
    /\ (pc = "done" /\ ~Falsy(result)) =>
          (RLt(Int2R(180), ReportedDaysSince(signals)) =>
              /\ HasCriticalActivityFlag(card.riskFlags)
              /\ HasCommitFrequencyAction(card.nextActions))

\* the same, for telemetry that carries a last-commit timestamp
C25_AgreementWithTimestamp ==
    /\ (pc = "flagged" /\ ~Falsy(result) /\ RawLastCommit(result) # <<>>) =>
          (RLt(Int2R(180), ReportedDaysSince(signals)) => HasCriticalActivityFlag(riskFlags))
    /\ (pc = "done" /\ ~Falsy(result) /\ RawLastCommit(result) # <<>>) =>
          (RLt(Int2R(180), ReportedDaysSince(signals)) =>
              /\ HasCriticalActivityFlag(card.riskFlags)
              /\ HasCommitFrequencyAction(card.nextActions))

\* no timestamp: the signal reports 999 days and the card carries neither an
\* activity flag nor the commit-frequency action
C25_MissingTimestamp ==
    /\ pc = "done"
    /\ ~Falsy(result)
    /\ RawLastCommit(result) = <<>>
    /\ ReportedDaysSince(signals) = Int2R(999)
    /\ \A i \in 1..Len(card.riskFlags) : card.riskFlags[i].category # "activity"
    /\ ~HasCommitFrequencyAction(card.nextActions)

\* C26: every grant returned by matchGrantsForNiche has scoreGrantMatch >= 1
\* for that niche: no matched grant is ranked with score 0
C26_MatchedScoresAtLeastOne ==
    (matched[1] = "returned" /\ KnownNiche) =>
        \A g \in Elements(matched[2]) : scoreGrantMatch(TheNiche, g) >= 1

\* a multi-chain grant returned for a niche that does not recommend
\* 'multi-chain': it passes the filter by its ecosystem and scores the chain
\* point through the alias list of a recommended chain
C26_Witness ==
    /\ matched[1] = "returned"
    /\ KnownNiche
    /\ \A c \in Elements(TheNiche.recommendedChains) : toLowerCase(c) # MultiChain
    /\ \E g \in Elements(matched[2]) :
          /\ toLowerCase(g.ecosystem) = MultiChain
          /\ ChainPoints(TheNiche, g) = 1

\* a grant returned only because its category contains a niche tag: neither
\* the tag nor the category term counts it, the chain term gives score 1
C26_WitnessScoreOne ==
    /\ matched[1] = "returned"
    /\ KnownNiche
    /\ \E g \in Elements(matched[2]) :
          /\ OverlappingNicheTags(TheNiche, g) = {}
          /\ CategoryPoints(TheNiche, g) = 0
          /\ scoreGrantMatch(TheNiche, g) = 1

Reported(status) == \E i \in 1..Len(fx.statuses) : fx.statuses[i] = status

\* at most two requests; the second carries the payment header and follows a
\* 402 and a non-null payload; a retry response that is not OK ends the call
\* with SETTLEMENT_FAILED
RequestsAndRetry ==
    /\ Len(fx.requests) <= 2
    /\ Len(fx.requests) >= 1 => ~fx.requests[1].payment
    /\ Len(fx.requests) = 2 =>
          /\ fx.requests[2].payment
          /\ fx.response.status = 402
          /\ fx.paymentPayload = "payload"
    /\ (fx.retryResponse.rejected = "no" /\ fx.retryResponse.status # 0
           /\ ~IsOk(fx.retryResponse)) =>
          fx.pc = "thrown" /\ fx.code = "SETTLEMENT_FAILED"

\* C27: in any execution of fetchWith402 at most two requests are issued, the
\* second (with the x-402-payment header) only after a 402 and a non-null
\* payload; a non-OK retry response is never retried and ends the call with
\* SETTLEMENT_FAILED; 'success' is reported only when the call returns a body
\* and 'error' only when it throws
C27_FetchWith402 ==
    /\ RequestsAndRetry
    /\ Reported("success") => fx.pc = "returned"
    /\ Reported("error") => fx.pc = "thrown"

\* the same without the clause on 'success'
C27_RequestsAndError ==
    /\ RequestsAndRetry
    /\ Reported("error") => fx.pc = "thrown"

\* an OK response whose body does not parse: 'success' and then 'error' are
\* reported and the call throws UNKNOWN
C27_SuccessThenThrown ==
    /\ fx.pc = "thrown"
    /\ fx.code = "UNKNOWN"
    /\ fx.statuses = <<"requesting", "success", "error">>
    /\ IsOk(fx.response)

\* a second 402 after a paid retry ends the call
C27_SecondPaymentRequired ==
    /\ fx.retryResponse.status = 402
    /\ fx.pc = "thrown"
    /\ fx.code = "SETTLEMENT_FAILED"
    /\ Len(fx.requests) = 2

\* C28: once the user has confirmed or closed the paywall modal, in any
\* paywall step, the payment promise is eventually resolved, so the suspended
\* fetchWith402 call terminates (in 'success' or 'error') and does not stay
\* in 'signing'
C28_PaymentPromiseResolved ==
    (fx.pc = "payment" /\ page.promise = "pending" /\ page.acted)
        ~> (page.promise # "pending" /\ Settled(fx))

\* the same in runs where the wallet stays connected
C28_ResolvedWhileConnected ==
    [](page.walletClient /\ page.address) => C28_PaymentPromiseResolved

\* Pay was pressed without a wallet client and the modal was then closed from
\* step 'error': the modal is gone, the promise is pending, the call suspended
C28_SuspendedInSigning ==
    /\ fx.pc = "payment"
    /\ page.promise = "pending"
    /\ page.acted
    /\ ~page.showPaywall
    /\ ~page.signing
    /\ page.status = "signing"

StoredItems == storage.history.items

\* C30: after any sequence of addToHistory calls the stored history holds at
\* most 50 items, newest first, the item just added at index 0; an add to a
\* full history drops exactly the oldest item; getAnalysisHistory returns the
\* empty list when the stored value is absent or unparseable
C30_HistoryCapped ==
    [][ /\ storage'.history.stored \in {"absent", "corrupt"} =>
              getAnalysisHistory(storage') = <<>>
        /\ storage'.history.stored = "json" =>
              /\ Len(storage'.history.items) <= 50
              /\ \A i, j \in 1..Len(storage'.history.items) :
                    i < j => storage'.history.items[i].timestamp
                                > storage'.history.items[j].timestamp
        /\ now' # now =>
              LET before == getAnalysisHistory(storage)
                  after == storage'.history.items
              IN  /\ storage'.history.stored = "json"
                  /\ after[1].timestamp = now'
                  /\ IF Len(before) < 50
                     THEN Tail(after) = before
                     ELSE /\ Len(before) = 50
                          /\ Tail(after) = SubSeq(before, 1, 49)
                          /\ \A i \in 1..Len(after) : after[i] # before[50]
      ]_vars

\* a full history after an add that dropped the oldest item
C30_Witness ==
    /\ storage.history.stored = "json"
    /\ Len(StoredItems) = 50
    /\ StoredItems[1].timestamp = now
    /\ StoredItems[50].timestamp = now - 49
    /\ now > Now0 + 50

\* the unparseable stored value reads as the empty list
C30_WitnessUnparseable ==
    /\ storage.history.stored = "corrupt"
    /\ getAnalysisHistory(storage) = <<>>


(***************************************************************************)
(* C29                                                                     *)
(***************************************************************************)
\* a step that writes the storage without clearing it: unlockGrants and
\* addToHistory have been invoked
UnlockInvoked == storage' # storage /\ storage' # StorageEmpty

\* the handler that acts in this step holds an OK analysis response whose
\* settlement reports success, and a wallet address
SettledAnalysisReceived ==
    /\ legacy' # legacy =>
          /\ legacy'.step = "results"
          /\ legacy'.result.settlement = "success"
          /\ legacy.address
    /\ fx' # fx =>
          /\ fx'.pc = "returned"
          /\ fx'.value = "success"
          /\ page.addressAtCall
    /\ legacy' # legacy \/ fx' # fx

\* C29: unlockGrants and addToHistory are invoked only after an OK analysis
\* response whose settlement reports success while a wallet address is
\* connected, never on a failed or rejected payment; and once the grants are
\* unlocked, isGrantsUnlocked stays true until clearAllData is called.
C29_UnlockedOnlyBySettledAnalysis ==
    [][ /\ UnlockInvoked => SettledAnalysisReceived
        /\ (isGrantsUnlocked(storage) /\ ~isGrantsUnlocked(storage')) =>
              (storage' = clearAllData(storage) /\ legacy' = legacy /\ fx' = fx)
      ]_vars

\* C29, the second half alone: once unlocked, isGrantsUnlocked stays true
\* across further analyses until clearAllData is called.
C29_UnlockedUntilCleared ==
    [][ (isGrantsUnlocked(storage) /\ ~isGrantsUnlocked(storage')) =>
           (storage' = clearAllData(storage) /\ legacy' = legacy /\ fx' = fx) ]_vars

\* C29: the grants are unlocked and the response shown carries no successful
\* settlement (its top-level success flag alone was true)
C29_UnlockedWithoutSettlement ==
    /\ isGrantsUnlocked(storage)
    /\ legacy.analyses = 1
    /\ legacy.step = "results"
    /\ legacy.result.success = "true"
    /\ legacy.result.settlement # "success"

\* C29: the grants are unlocked after a response whose settlement succeeded
C29_UnlockedBySettlement ==
    /\ isGrantsUnlocked(storage)
    /\ legacy.analyses = 1
    /\ legacy.result.settlement = "success"

\* C29: a second analysis has run while the grants stayed unlocked
C29_StillUnlocked ==
    /\ isGrantsUnlocked(storage)
    /\ legacy.analyses = 2
    /\ legacy.step = "error"

====
